---- MODULE Spec2Model ----
(***************************************************************************)
(* Peer orchestration and synchronisation engine of odp-plus.              *)
(*                                                                         *)
(*   Spec       the host's orchestrator after initialize(): the peer       *)
(*              connection map and the two sync gates (start gate and      *)
(*              completion gate) of src/src/P2POrchestrator.ts.            *)
(*   SpecConn   one participant from the construction of its orchestrator: *)
(*              initialize(), P2PClient.init and, on a follower, the       *)
(*              connection to the host with its retries (src/unnamed/      *)
(*              part_010).                                                 *)
(*   SpecClock  one follower's clock synchronisation with the host: the    *)
(*              __ping / __pong exchange of P2PClient (src/unnamed/        *)
(*              part_010) over a link with variable one-way delays.        *)
(*                                                                         *)
(*   SpecShake  the host with followers connecting and leaving: the        *)
(*              handshake sequence of each new connection, the relay of    *)
(*              the messages the host observes and the host's songStart.   *)
(*   SpecReplay the host's GameStateManager (src/src/popup.ts): the snapshot  *)
(*              it tracks and the replay it offers to a late joiner.       *)
(*   SpecForward the host receiving data from its peers: the __forward      *)
(*              envelopes of src/src/redirect.ts, whose payloads are       *)
(*              character sequences parsed as JSON.parse parses them.      *)
(*   SpecLate   the host mid-song with one follower joining late.          *)
(*   SpecJoin   the host from its first server message, with followers     *)
(*              connecting before and after the registration is cached.    *)
(*   SpecOrder  the host arming each gate once, signals in any order.      *)
(*   SpecSync   one participant with the follower's sync timers: the 2 s   *)
(*              timer of the OdpWebSocket constructor and the interval     *)
(*              of startPeriodicSync.                                      *)
(*   SpecShakeFair  SpecShake with every handshake sequence resuming       *)
(*              from each of its awaits.                                   *)
(*   SpecTrack  the host's snapshot under any sequence of messages.        *)
(*   SpecPeerData  the data handler of a connection and what it passes on. *)
(*   SpecStar   followers and host: who each participant sends to.         *)
(*   SpecDefer  a follower holding back results while its video plays.     *)
(*   SpecRtt    the handshake with followers that run this extension;      *)
(*   SpecEcho   the same with peers that answer the RTT probe.             *)
(*   SpecTable  SpecConn with several connections of one peer id.          *)
(*                                                                         *)
(* Offsets are held in half-milliseconds, so that rtt / 2 stays exact.     *)
(*                                                                         *)
(* Time is abstract: a pending setTimeout may fire at any later step.      *)
(***************************************************************************)
EXTENDS Integers, Sequences, FiniteSets, TLC

\* ------------------------------------------------------------------ bounds

\* Number of gate waits (calls of waitForAllReady / waitForAllFinished) explored.
MaxWaits == 2

\* Number of handshake sequences (incoming connections on the host) explored.
MaxShakes == 2

\* Number of playerJoined messages the snapshot may hold.
MaxPlayers == 2

\* Number of initialize() calls explored.
MaxInitCalls == 2

\* Longest text over `{`, `}`, `1` that follows the prefix of a forwarded payload.
MaxRemainder == 2

\* Number of distinct payloads sent upstream that are explored.
MaxUpstream == 2

\* Number of messages a follower holds deferred.
MaxDeferred == 2
\* Number of data connections one remote peer has open at a time.
MaxConns == 2

\* Remote peer ids that may open a data connection to this participant.
Peers == {"f1", "f2"}

\* Arguments of initialize().
RoomIds == {"r1", "r2"}

NoClient == [isHost |-> FALSE, roomId |-> "none"]

\* One-way network delays (ms) and the follower's clock skew (follower clock
\* minus host clock, ms), and the follower clock readings at which it pings.
Delays == {1, 6}
Skews == {-3, 2}
SendTimes == {1000, 1003}

\* P2PClient.MAX_RTT_SAMPLES
MAX_RTT_SAMPLES == 7
\* P2PClient.RTT_OUTLIER_THRESHOLD = 2.5, as the fraction 5 / 2
OUTLIER_NUM == 5
OUTLIER_DEN == 2
\* Samples held before outlier rejection starts (`recentRTTs.length >= 3`).
MIN_SAMPLES == 3

\* P2PClient.getPeerId(): `odp-${roomId.toLowerCase()}`, the host's peer id.
GetPeerId(roomId) == IF roomId = "r1" THEN "odp-r1" ELSE "odp-r2"
HostPeerId == GetPeerId("r1")

\* connectToHost: `const maxRetries = 8`
MAX_RETRIES == 8
\* init: `retryCount < 3`
MAX_INIT_RETRIES == 3
\* init: `setTimeout(() => this.init(retryCount + 1), 2000)`
INIT_RETRY_DELAY == 2000
\* Backoff base and cap (ms): `Math.min(3000 * Math.pow(1.5, n), 60000)`
BASE_DELAY == 3000
MAX_DELAY == 60000
\* Delays are held in units of 1 / 2^MAX_RETRIES ms, so that 1.5^n stays exact.
Scale == 2 ^ MAX_RETRIES

NoConn == [state |-> "none", retryCount |-> 0, timer |-> "none"]
NoTimer == [pending |-> FALSE, retryCount |-> 0]
NoInitTimer == [pending |-> FALSE, retryCount |-> 0, delay |-> 0]

NoMsg == [type |-> "none"]

\* A JDNMessage field or slot that is null.
Null == [func |-> "null"]
\* The JDN messages the host observes, by func; id tells two players apart.
PlayerIds == {1, 2}
SlotFuncs == {"tabRest", "navRest", "songSelected", "coachSelected", "neverDanceAlone",
              "songLaunched", "songStart"}
JDNMessages ==
    {[func |-> f, id |-> 1] : f \in SlotFuncs \cup {"songEnd", "returnToLobby"}}
        \cup {[func |-> f, id |-> i] : f \in {"playerJoined", "playerLeft"}, i \in PlayerIds}
\* GameStateManager as its field initialisers leave it.
NewGameState ==
    [state |-> [tabRest |-> Null, navRest |-> Null, selected |-> Null,
                coachSelected |-> Null, neverDanceAlone |-> Null, launched |-> Null,
                start |-> Null],
     players |-> <<>>,
     isMidSong |-> FALSE]
NoReplay == [called |-> FALSE, msgs |-> <<>>]
\* No __forward envelope handled yet.
NoForward == [payload |-> [type |-> "undefined", chars |-> <<>>], verdict |-> "none"]

\* handleNewPeerConnection: `for (let i = 0; i < 5; i++)`
SYNC_PINGS == 5
\* The messages of the handshake that are not replayed snapshot entries.
RttProbe == [func |-> "__rttProbe", id |-> 0]
SyncPing(i) == [func |-> "sync", id |-> i]
ClientSyncCompleted == [func |-> "clientSyncCompleted", id |-> 0]
ConnectedMsg == [func |-> "06BJ Connected", id |-> 0]
\* The ODP SongStart message with the host's timestamp.
SongStartMsg == [func |-> "06BJ SongStart", id |-> 0]
\* The registration messages the host's server sends (`connect` with roomNumber).
RegisterMessages == {[func |-> "connect", id |-> 1], [func |-> "connect", id |-> 2]}
\* broadcastMessage: `const gameplayFuncs = [...]`
GameplayFuncs == {"playerFeedBack", "playerScore", "playerMoves"}
\* measurePeerRTT: `resolve(100)` of the 2 s timeout.
RTT_FALLBACK == 100
\* handleNewPeerConnection: `const latency = Math.round(measuredRTT / 2)`
\* (Math.round rounds a half upwards).
Latency(measuredRTT) == (measuredRTT + 1) \div 2
\* A handshake sequence at its first await (`await this.sleep(500)`). Field
\* handler: pendingRTTProbes holds the callback of this sequence under its peer
\* id; rtt and by: the value its measurePeerRTT promise resolved with and what
\* resolved it (of: the sequence whose probe the echo answered); probe: where
\* its __rttProbe is; latency: the latency field of the clientSyncCompleted it
\* sent.
NewShake(peerId) ==
    [peer |-> peerId, pc |-> "settle", i |-> 0, replay |-> <<>>, sent |-> <<>>,
     dropped |-> FALSE, failed |-> FALSE,
     handler |-> FALSE, rtt |-> 0, by |-> "none", of |-> 0, probe |-> "none",
     latency |-> 0]
NoPong == [rtt |-> 0, candidate |-> 0, up |-> 0, down |-> 0, verdict |-> "none"]

\* ------------------------------------------------------------------ state

VARIABLES
    initializeCalls,      \* number of calls of initialize() made so far
    p2pInitialized,       \* P2POrchestrator.p2pInitialized
    p2pClient,            \* P2POrchestrator.p2pClient (NoClient = null), as its options
    clientsCreated,       \* number of `new P2PClient(...)` evaluated
    connectionListeners,  \* callbacks registered with p2pClient.on("connection", ...)
    connections,          \* keys of P2PClient.connections (= getPeerIds())
    keyOrder,             \* the keys of P2PClient.connections in the Map's insertion order
    liveConns,            \* per peer id, the DataConnections from it that are open
    lastConn,             \* per peer id, the DataConnection opened last (0 once it closed)
    readyPeers,           \* P2POrchestrator.readyPeers
    finishedPeers,        \* P2POrchestrator.finishedPeers
    hostVideoReady,       \* P2POrchestrator.hostVideoReady
    songStartResolver,    \* 0 = null, else the wait whose promise it resolves
    resultsSyncResolver,  \* 0 = null, else the wait whose promise it resolves
    syncTimeout,          \* 0 = null, else the wait whose setTimeout handle it holds
    waits,                \* one record per wait call: its promise and its timer
    arrived,              \* the signals accepted by the gates since the last reset
    skew,                 \* follower clock minus host clock (ms), unknown to both
    channel,              \* the __ping or __pong in flight between follower and host
    recentRTTs,           \* P2PClient.recentRTTs of the follower
    clockOffset,          \* P2PClient.clockOffset of the follower, in half-ms
    retainedOffsets,      \* candidate offsets (half-ms) of the samples in recentRTTs
    lastPong,             \* the last __pong the follower handled, and its verdict
    syncInterval,         \* P2PClient.syncInterval: FALSE = null, TRUE = a timer handle
    intervals,            \* number of setInterval timers of startPeriodicSync running
    kickoff,              \* the constructor's setTimeout(..., 2000): "none", "pending", "fired"
    firstProbe,           \* what sent the first __ping since the connection to the host
                          \* last opened: "none", "kickoff", "tick" or "call"
    peer,                 \* P2PClient.peer: "none", "opening", "open" or "error"
    initialized,          \* P2PClient.initialized
    initRetry,            \* retryCount of the running P2PClient.init call
    initTimer,            \* the pending `setTimeout(() => this.init(retryCount + 1), 2000)`
    hostConn,             \* the follower's latest DataConnection to the host
    retryTimer,           \* the pending `setTimeout(() => this.connectToHost(n), delay)`
    reconnectAttempts,    \* P2PClient.reconnectAttempts
    lastDelay,            \* the delay of the last retry scheduled since a connection opened
    gameState,            \* P2POrchestrator.gameState (a GameStateManager)
    replayed,             \* what the caller of SpecReplay got from getReplayMessages()
    cachedRegisterRoomMsg,\* P2POrchestrator.cachedRegisterRoomMsg (Null = null)
    initializingPeers,    \* P2POrchestrator.initializingPeers
    peersWaitingForSong,  \* P2POrchestrator.peersWaitingForSong
    shakes,               \* the calls of handleNewPeerConnection: position, and what each sent
    lastSent,             \* the messages the last step sent to peers: [to, msg, from]
    upstream,             \* the payloads the host sent on its real WebSocket (super.send)
    delivered,            \* the data handleP2PData passed on to the onmessage handler
    lastForward,          \* the last __forward envelope handled, and what became of it
    deferredMessages,     \* OdpWebSocket.deferredMessages of a follower
    deferralTimer,        \* OdpWebSocket.deferralTimer: FALSE = null, TRUE = a pending timer
    videoEndWatcher,      \* OdpWebSocket.videoEndWatcher: FALSE = null, TRUE = an interval
    videoPlaying,         \* a video element exists, neither paused nor ended, readyState >= 2
    gameReceived,         \* the messages handed to the game's onmessage handler
    lastFlush             \* what called flushDeferredMessages last: "none", "timeout", "poll"

gateVars == <<readyPeers, finishedPeers, hostVideoReady, songStartResolver,
              resultsSyncResolver, syncTimeout, waits, arrived>>
initVars == <<p2pInitialized, p2pClient, clientsCreated, connectionListeners>>
tableVars == <<keyOrder, liveConns, lastConn>>
orchVars == <<initializeCalls, initVars, connections, tableVars, gateVars>>
syncVars == <<syncInterval, intervals, kickoff, firstProbe>>
clockVars == <<skew, channel, recentRTTs, clockOffset, retainedOffsets, lastPong, syncVars>>
linkVars == <<peer, initialized, initRetry, initTimer, hostConn, retryTimer,
              reconnectAttempts, lastDelay>>
shakeVars == <<cachedRegisterRoomMsg, initializingPeers, peersWaitingForSong, shakes,
               lastSent>>
deferVars == <<deferredMessages, deferralTimer, videoEndWatcher, videoPlaying, gameReceived,
               lastFlush>>
p2pDataVars == <<delivered, lastForward, deferVars>>
extVars == <<gameState, replayed, shakeVars, upstream, p2pDataVars>>
vars == <<orchVars, clockVars, linkVars, extVars>>

\* ------------------------------------------------------------------ helpers

\* Nothing deferred, no video playing, nothing handed to the game yet.
DeferIdle ==
    /\ deferredMessages = <<>>
    /\ deferralTimer = FALSE
    /\ videoEndWatcher = FALSE
    /\ videoPlaying = FALSE
    /\ gameReceived = {}
    /\ lastFlush = "none"

\* The orders in which the keys of a Map may have been inserted.
Orderings(keys) ==
    {order \in [1..Cardinality(keys) -> keys] :
        \A i, j \in 1..Cardinality(keys) : order[i] = order[j] => i = j}

\* The DataConnection objects behind a connection map in which every peer
\* connected once.
TableInit ==
    /\ keyOrder \in Orderings(connections)
    /\ liveConns = [p \in Peers |-> IF p \in connections THEN {1} ELSE {}]
    /\ lastConn = [p \in Peers |-> IF p \in connections THEN 1 ELSE 0]

\* Map.delete(key) and Map.set(key, ...) on the insertion order of the keys.
DeleteKey(order, key) == SelectSeq(order, LAMBDA k : k # key)
SetKey(order, key) ==
    IF \E i \in 1..Len(order) : order[i] = key THEN order ELSE Append(order, key)

\* A roster fixed in advance instead of the live connection map.
GetPeerIdsFixedRoster(client, conns) == IF client = NoClient THEN {} ELSE Peers

\* P2PClient.getPeerIds as the orchestrator reads it: `this.p2pClient?.getPeerIds() ?? []`.
GetPeerIds(client, conns) == IF client = NoClient THEN {} ELSE conns

\* clearTimeout(handle): cancels the timer if it is still pending, else does nothing.
ClearTimeout(w, handle) ==
    IF handle # 0 /\ w[handle].timer = "pending"
    THEN [w EXCEPT ![handle].timer = "cleared"]
    ELSE w

\* Calling a stored resolver and dropping it (`if (r) { r(); r = null }`).
\* The field calls counts the invocations; only the first settles the promise.
CallResolver(w, resolver, how) ==
    IF resolver # 0
    THEN [w EXCEPT ![resolver].promise = "resolved",
                   ![resolver].how = IF w[resolver].promise = "pending" THEN how ELSE @,
                   ![resolver].calls = @ + 1]
    ELSE w

\* resolveStartSync / resolveResultsSync that leave the resolver in its field.
ResolveSyncKeepsResolver(w, handle, resolver, how) ==
    [waits |-> CallResolver(ClearTimeout(w, handle), resolver, how), resolver |-> resolver]

\* resolveStartSync / resolveResultsSync: both clear the one shared syncTimeout.
ResolveSync(w, handle, resolver, how) ==
    [waits |-> CallResolver(ClearTimeout(w, handle), resolver, how), resolver |-> 0]

\* checkStartReadiness without the host's own readiness.
StartReadyNoHost(active, ready, hostReady) ==
    active = {} \/ \A id \in active : id \in ready

\* The condition of checkStartReadiness.
StartReady(active, ready, hostReady) ==
    hostReady /\ (active = {} \/ \A id \in active : id \in ready)

\* checkResultsReadiness satisfied by any one finished follower.
ResultsReadyAny(active, finished) ==
    active = {} \/ \E id \in active : id \in finished

\* The condition of checkResultsReadiness.
ResultsReady(active, finished) ==
    active = {} \/ \A id \in active : id \in finished

CheckStartReadiness(w, handle, resolver, active, ready, hostReady) ==
    IF StartReady(active, ready, hostReady)
    THEN ResolveSync(w, handle, resolver, "check")
    ELSE [waits |-> w, resolver |-> resolver]

CheckResultsReadiness(w, handle, resolver, active, finished) ==
    IF ResultsReady(active, finished)
    THEN ResolveSync(w, handle, resolver, "check")
    ELSE [waits |-> w, resolver |-> resolver]

\* A signal the gates accepted: the host's own readiness, or a follower's.
Signal(signal, from) == [signal |-> signal, from |-> from]

NewWait(gate, promise, timer, how) ==
    [gate |-> gate, promise |-> promise, timer |-> timer, how |-> how, lost |-> {},
     calls |-> 0]

\* ------------------------------------------------------------------ actions

\* The body of initialize(): what it does to the orchestrator and the client.
InitializeClient(isHost, roomId) ==
    /\ initializeCalls < MaxInitCalls
    /\ initializeCalls' = initializeCalls + 1
    /\ IF p2pInitialized
       THEN UNCHANGED <<initVars, linkVars>>
       ELSE /\ p2pInitialized' = TRUE
            /\ p2pClient' = [isHost |-> isHost, roomId |-> roomId]
            /\ clientsCreated' = clientsCreated + 1
            /\ connectionListeners' = connectionListeners + (IF isHost THEN 1 ELSE 0)
            /\ peer' = "opening"
            /\ initRetry' = 0
            /\ UNCHANGED <<initialized, initTimer, hostConn, retryTimer,
                           reconnectAttempts, lastDelay>>
    /\ UNCHANGED <<connections, tableVars, gateVars>>

\* initialize() without its `if (this.p2pInitialized) return`.
InitializeUnguarded(isHost, roomId) ==
    /\ UNCHANGED <<clockVars, extVars>>
    /\ initializeCalls < MaxInitCalls
    /\ initializeCalls' = initializeCalls + 1
    /\ p2pInitialized' = TRUE
    /\ p2pClient' = [isHost |-> isHost, roomId |-> roomId]
    /\ clientsCreated' = clientsCreated + 1
    /\ connectionListeners' = connectionListeners + (IF isHost THEN 1 ELSE 0)
    /\ peer' = "opening"
    /\ initRetry' = 0
    /\ UNCHANGED <<initialized, initTimer, hostConn, retryTimer, reconnectAttempts,
                   lastDelay>>
    /\ UNCHANGED <<connections, tableVars, gateVars>>

\* initialize(): the first call constructs the P2PClient, whose constructor
\* runs init() and so creates the Peer.
Initialize(isHost, roomId) ==
    /\ InitializeClient(isHost, roomId)
    /\ UNCHANGED <<clockVars, extVars>>

\* trigger("connection", conn.peer): the host's listener runs
\* handleNewPeerConnection up to its first await. Without a cached
\* registration message no handshake is started.
HandleNewPeerConnection(peerId) ==
    /\ IF connectionListeners = 0 \/ cachedRegisterRoomMsg = Null
       THEN UNCHANGED <<initializingPeers, shakes>>
       ELSE /\ Len(shakes) < MaxShakes
            /\ initializingPeers' = initializingPeers \cup {peerId}
            /\ shakes' = Append(shakes, NewShake(peerId))
    /\ lastSent' = {}
    /\ UNCHANGED <<gameState, replayed, cachedRegisterRoomMsg, peersWaitingForSong, upstream, p2pDataVars>>

\* conn.on("open") of an incoming connection: the connection enters the map
\* and the "connection" listeners are called.
ConnOpen(peerId) ==
    /\ UNCHANGED clockVars
    /\ HandleNewPeerConnection(peerId)
    /\ peer = "open"
    /\ reconnectAttempts' = 0
    /\ UNCHANGED <<peer, initialized, initRetry, initTimer, hostConn, retryTimer, lastDelay>>
    /\ peerId \notin connections
    /\ liveConns[peerId] = {}
    /\ connections' = connections \cup {peerId}
    /\ keyOrder' = SetKey(keyOrder, peerId)
    /\ liveConns' = [liveConns EXCEPT ![peerId] = {1}]
    /\ lastConn' = [lastConn EXCEPT ![peerId] = 1]
    /\ UNCHANGED <<initializeCalls, initVars, gateVars>>

\* A wait that is registered and unresolved, and still lacks the signal of peerId.
Awaits(w, id, peerId) ==
    /\ w[id].promise = "pending"
    /\ \/ id = songStartResolver /\ peerId \notin readyPeers
       \/ id = resultsSyncResolver /\ peerId \notin finishedPeers

\* conn.on("close") / conn.on("error") of an incoming connection: it leaves the map. Each wait
\* notes (field lost) the followers that left while it awaited their signal, and
\* each running handshake sequence (field dropped) that its peer left.
ConnClose(peerId) ==
    /\ UNCHANGED <<clockVars, linkVars>>
    /\ shakes' = [k \in 1..Len(shakes) |->
                     IF shakes[k].peer = peerId /\ shakes[k].pc \notin {"done", "aborted"}
                     THEN [shakes[k] EXCEPT !.dropped = TRUE]
                     ELSE shakes[k]]
    /\ lastSent' = {}
    /\ UNCHANGED <<gameState, replayed, cachedRegisterRoomMsg, initializingPeers,
                   peersWaitingForSong, upstream, p2pDataVars>>
    /\ peerId \in connections
    /\ liveConns[peerId] = {lastConn[peerId]}
    /\ connections' = connections \ {peerId}
    /\ keyOrder' = DeleteKey(keyOrder, peerId)
    /\ liveConns' = [liveConns EXCEPT ![peerId] = {}]
    /\ lastConn' = [lastConn EXCEPT ![peerId] = 0]
    /\ waits' = [id \in 1..Len(waits) |->
                    IF Awaits(waits, id, peerId)
                    THEN [waits[id] EXCEPT !.lost = @ \cup {peerId}]
                    ELSE waits[id]]
    /\ UNCHANGED <<initializeCalls, initVars, readyPeers, finishedPeers, hostVideoReady,
                   songStartResolver, resultsSyncResolver, syncTimeout, arrived>>

\* The number given to the next DataConnection of peerId.
NextConn(peerId) ==
    1 + (CHOOSE c \in liveConns[peerId] \cup {lastConn[peerId]} :
            \A d \in liveConns[peerId] \cup {lastConn[peerId]} : d <= c)

\* conn.on("open") of a further incoming connection of a peer id that still
\* has one open: `this.connections.set(conn.peer, conn)` puts the new
\* connection under the key, and the "connection" listeners are called.
ConnOpenAgain(peerId) ==
    /\ UNCHANGED clockVars
    /\ HandleNewPeerConnection(peerId)
    /\ peer = "open"
    /\ reconnectAttempts' = 0
    /\ UNCHANGED <<peer, initialized, initRetry, initTimer, hostConn, retryTimer, lastDelay>>
    /\ liveConns[peerId] # {}
    /\ Cardinality(liveConns[peerId]) < MaxConns
    /\ connections' = connections \cup {peerId}
    /\ keyOrder' = SetKey(keyOrder, peerId)
    /\ liveConns' = [liveConns EXCEPT ![peerId] = @ \cup {NextConn(peerId)}]
    /\ lastConn' = [lastConn EXCEPT ![peerId] = NextConn(peerId)]
    /\ UNCHANGED <<initializeCalls, initVars, gateVars>>

\* conn.on("close") of the incoming connection c of a peer id that has
\* another one open: `this.connections.delete(conn.peer)` removes the key,
\* whichever connection it holds.
ConnCloseOf(peerId, c) ==
    /\ UNCHANGED <<clockVars, linkVars>>
    /\ shakes' = [k \in 1..Len(shakes) |->
                     IF shakes[k].peer = peerId /\ shakes[k].pc \notin {"done", "aborted"}
                        /\ peerId \in connections
                     THEN [shakes[k] EXCEPT !.dropped = TRUE]
                     ELSE shakes[k]]
    /\ lastSent' = {}
    /\ UNCHANGED <<gameState, replayed, cachedRegisterRoomMsg, initializingPeers,
                   peersWaitingForSong, upstream, p2pDataVars>>
    /\ c \in liveConns[peerId]
    /\ liveConns[peerId] # {c}
    /\ connections' = connections \ {peerId}
    /\ keyOrder' = DeleteKey(keyOrder, peerId)
    /\ liveConns' = [liveConns EXCEPT ![peerId] = @ \ {c}]
    /\ lastConn' = [lastConn EXCEPT ![peerId] = IF @ = c THEN 0 ELSE @]
    /\ waits' = [id \in 1..Len(waits) |->
                    IF Awaits(waits, id, peerId) /\ peerId \in connections
                    THEN [waits[id] EXCEPT !.lost = @ \cup {peerId}]
                    ELSE waits[id]]
    /\ UNCHANGED <<initializeCalls, initVars, readyPeers, finishedPeers, hostVideoReady,
                   songStartResolver, resultsSyncResolver, syncTimeout, arrived>>

ResetSyncGates ==
    /\ UNCHANGED <<clockVars, linkVars, extVars>>
    /\ readyPeers' = {}
    /\ finishedPeers' = {}
    /\ hostVideoReady' = FALSE
    /\ songStartResolver' = 0
    /\ resultsSyncResolver' = 0
    /\ waits' = ClearTimeout(waits, syncTimeout)
    /\ arrived' = {}
    /\ UNCHANGED <<initializeCalls, initVars, connections, tableVars, syncTimeout>>

MarkHostVideoReady ==
    /\ UNCHANGED <<clockVars, linkVars, extVars>>
    /\ LET r == CheckStartReadiness(waits, syncTimeout, songStartResolver,
                                 GetPeerIds(p2pClient, connections), readyPeers, TRUE)
       IN  /\ hostVideoReady' = TRUE
           /\ waits' = r.waits
           /\ songStartResolver' = r.resolver
    /\ arrived' = arrived \cup {Signal("hostReady", "host")}
    /\ UNCHANGED <<initializeCalls, initVars, connections, tableVars, readyPeers, finishedPeers,
                   resultsSyncResolver, syncTimeout>>

\* handleReadyToStart that notes the follower only while a wait is registered.
HandleReadyToStartWhileWaiting(peerId) ==
    /\ UNCHANGED <<clockVars, linkVars, extVars>>
    /\ IF peerId \in GetPeerIds(p2pClient, connections)
       THEN LET ready == IF songStartResolver # 0 THEN readyPeers \cup {peerId}
                         ELSE readyPeers
                r == CheckStartReadiness(waits, syncTimeout, songStartResolver,
                         GetPeerIds(p2pClient, connections), ready, hostVideoReady)
            IN  /\ readyPeers' = ready
                /\ waits' = r.waits
                /\ songStartResolver' = r.resolver
                /\ arrived' = arrived \cup {Signal("readyToStart", peerId)}
       ELSE UNCHANGED <<readyPeers, waits, songStartResolver, arrived>>
    /\ UNCHANGED <<initializeCalls, initVars, connections, tableVars, finishedPeers, hostVideoReady,
                   resultsSyncResolver, syncTimeout>>

HandleReadyToStart(peerId) ==
    /\ UNCHANGED <<clockVars, linkVars, extVars>>
    /\ IF peerId \in GetPeerIds(p2pClient, connections)
       THEN LET ready == readyPeers \cup {peerId}
                r == CheckStartReadiness(waits, syncTimeout, songStartResolver,
                         GetPeerIds(p2pClient, connections), ready, hostVideoReady)
            IN  /\ readyPeers' = ready
                /\ waits' = r.waits
                /\ songStartResolver' = r.resolver
                /\ arrived' = arrived \cup {Signal("readyToStart", peerId)}
       ELSE UNCHANGED <<readyPeers, waits, songStartResolver, arrived>>
    /\ UNCHANGED <<initializeCalls, initVars, connections, tableVars, finishedPeers, hostVideoReady,
                   resultsSyncResolver, syncTimeout>>

HandleReadyForResults(peerId) ==
    /\ UNCHANGED <<clockVars, linkVars, extVars>>
    /\ IF peerId \in GetPeerIds(p2pClient, connections)
       THEN LET finished == finishedPeers \cup {peerId}
                r == CheckResultsReadiness(waits, syncTimeout, resultsSyncResolver,
                         GetPeerIds(p2pClient, connections), finished)
            IN  /\ finishedPeers' = finished
                /\ waits' = r.waits
                /\ resultsSyncResolver' = r.resolver
                /\ arrived' = arrived \cup {Signal("readyForResults", peerId)}
       ELSE UNCHANGED <<finishedPeers, waits, resultsSyncResolver, arrived>>
    /\ UNCHANGED <<initializeCalls, initVars, connections, tableVars, readyPeers, hostVideoReady,
                   songStartResolver, syncTimeout>>

WaitForAllReady ==
    /\ UNCHANGED <<clockVars, linkVars, extVars>>
    /\ Len(waits) < MaxWaits
    /\ IF GetPeerIds(p2pClient, connections) = {} /\ hostVideoReady
       THEN /\ waits' = Append(waits, NewWait("start", "resolved", "none", "immediate"))
            /\ UNCHANGED <<songStartResolver, syncTimeout>>
       ELSE LET id == Len(waits) + 1
                w  == Append(waits, NewWait("start", "pending", "pending", "none"))
                r  == CheckStartReadiness(w, id, id,
                          GetPeerIds(p2pClient, connections), readyPeers, hostVideoReady)
            IN  /\ syncTimeout' = id
                /\ waits' = r.waits
                /\ songStartResolver' = r.resolver
    /\ UNCHANGED <<initializeCalls, initVars, connections, tableVars, readyPeers, finishedPeers, hostVideoReady,
                   resultsSyncResolver, arrived>>

WaitForAllFinished ==
    /\ UNCHANGED <<clockVars, linkVars, extVars>>
    /\ Len(waits) < MaxWaits
    /\ IF GetPeerIds(p2pClient, connections) = {}
       THEN /\ waits' = Append(waits, NewWait("results", "resolved", "none", "immediate"))
            /\ UNCHANGED <<resultsSyncResolver, syncTimeout>>
       ELSE LET id == Len(waits) + 1
                w  == Append(waits, NewWait("results", "pending", "pending", "none"))
                r  == CheckResultsReadiness(w, id, id,
                          GetPeerIds(p2pClient, connections), finishedPeers)
            IN  /\ syncTimeout' = id
                /\ waits' = r.waits
                /\ resultsSyncResolver' = r.resolver
    /\ UNCHANGED <<initializeCalls, initVars, connections, tableVars, readyPeers, finishedPeers, hostVideoReady,
                   songStartResolver, arrived>>

\* The setTimeout callback of waitForAllReady: resolveStartSync().
StartTimeout(id) ==
    /\ UNCHANGED <<clockVars, linkVars, extVars>>
    /\ id \in 1..Len(waits)
    /\ waits[id].gate = "start"
    /\ waits[id].timer = "pending"
    /\ LET r == ResolveSync([waits EXCEPT ![id].timer = "fired"], syncTimeout,
                            songStartResolver, "timeout")
       IN  /\ waits' = r.waits
           /\ songStartResolver' = r.resolver
    /\ UNCHANGED <<initializeCalls, initVars, connections, tableVars, readyPeers, finishedPeers, hostVideoReady,
                   resultsSyncResolver, syncTimeout, arrived>>

\* The setTimeout callback of waitForAllFinished: resolveResultsSync().
ResultsTimeout(id) ==
    /\ UNCHANGED <<clockVars, linkVars, extVars>>
    /\ id \in 1..Len(waits)
    /\ waits[id].gate = "results"
    /\ waits[id].timer = "pending"
    /\ LET r == ResolveSync([waits EXCEPT ![id].timer = "fired"], syncTimeout,
                            resultsSyncResolver, "timeout")
       IN  /\ waits' = r.waits
           /\ resultsSyncResolver' = r.resolver
    /\ UNCHANGED <<initializeCalls, initVars, connections, tableVars, readyPeers, finishedPeers, hostVideoReady,
                   songStartResolver, syncTimeout, arrived>>

\* ------------------------------------------------------------------ clock sync

RECURSIVE Insert(_, _)
\* x placed into the ascending sequence s.
Insert(s, x) ==
    IF s = <<>> THEN <<x>>
    ELSE IF x <= Head(s) THEN <<x>> \o s
    ELSE <<Head(s)>> \o Insert(Tail(s), x)

RECURSIVE SortAsc(_)
\* `[...s].sort((a, b) => a - b)`
SortAsc(s) == IF s = <<>> THEN <<>> ELSE Insert(SortAsc(Tail(s)), Head(s))

\* `sorted[Math.floor(sorted.length / 2)]` (0-based there, 1-based here).
MedianRTT(rtts) == SortAsc(rtts)[(Len(rtts) \div 2) + 1]

\* Rejection starting one sample early, with two samples held.
IsOutlierEarly(rtts, rtt) ==
    /\ Len(rtts) >= MIN_SAMPLES - 1
    /\ rtt * OUTLIER_DEN > MedianRTT(rtts) * OUTLIER_NUM

\* The outlier test: `recentRTTs.length >= 3` and `rtt > median * 2.5`.
IsOutlier(rtts, rtt) ==
    /\ Len(rtts) >= MIN_SAMPLES
    /\ rtt * OUTLIER_DEN > MedianRTT(rtts) * OUTLIER_NUM

\* A full window that turns the new sample away instead of its oldest one.
PushSampleDropsNewest(buf, x) ==
    IF Len(buf) >= MAX_RTT_SAMPLES THEN buf ELSE Append(buf, x)

\* push, then shift once the window exceeds MAX_RTT_SAMPLES.
PushSample(buf, x) ==
    LET b == Append(buf, x)
    IN  IF Len(b) > MAX_RTT_SAMPLES THEN Tail(b) ELSE b

\* The offset taken against the whole round trip instead of half of it.
CandidateOffsetFullRTT(t1, serverTime, t4) ==
    2 * t4 - (2 * serverTime + 2 * (t4 - t1))

\* `t4 - (serverTime + rtt / 2)` with rtt = t4 - t1, in half-ms.
CandidateOffset(t1, serverTime, t4) ==
    2 * t4 - (2 * serverTime + (t4 - t1))

\* The offset taken off the host's timestamp instead of added to it.
AdjustedTimeSubtracts(startTime, offset) == 2 * startTime - offset

\* songStartSync's argument: `odpMsg.startTime + this.orchestrator.clockOffset`, in half-ms.
AdjustedTime(startTime, offset) == 2 * startTime + offset

\* P2PClient.syncClock on the follower: a __ping carrying its Date.now().
SyncClock(t1) ==
    /\ ~p2pClient.isHost
    /\ HostPeerId \in connections
    /\ channel = NoMsg
    /\ channel' = [type |-> "__ping", t1 |-> t1, to |-> GetPeerId(p2pClient.roomId)]
    /\ UNCHANGED <<skew, recentRTTs, clockOffset, retainedOffsets, lastPong, syncVars>>
    /\ UNCHANGED <<orchVars, linkVars, extVars>>

\* The host's data handler: the __ping arrives after the uplink delay `up` and
\* is answered at once with the host's Date.now().
HostOnPing(up) ==
    /\ channel.type = "__ping"
    /\ channel' = [type |-> "__pong", t1 |-> channel.t1,
                   serverTime |-> channel.t1 + up - skew, up |-> up]
    /\ UNCHANGED <<skew, recentRTTs, clockOffset, retainedOffsets, lastPong, syncVars>>
    /\ UNCHANGED <<orchVars, linkVars, extVars>>

\* The follower's data handler: the __pong arrives after the downlink delay `down`.
FollowerOnPong(down) ==
    /\ channel.type = "__pong"
    /\ LET t4 == channel.serverTime + down + skew
           t1 == channel.t1
           rtt == t4 - t1
           candidateOffset == CandidateOffset(t1, channel.serverTime, t4)
       IN  IF IsOutlier(recentRTTs, rtt)
           THEN /\ lastPong' = [rtt |-> rtt, candidate |-> candidateOffset,
                                up |-> channel.up, down |-> down, verdict |-> "rejected"]
                /\ UNCHANGED <<recentRTTs, clockOffset, retainedOffsets>>
           ELSE /\ recentRTTs' = PushSample(recentRTTs, rtt)
                /\ retainedOffsets' = PushSample(retainedOffsets, candidateOffset)
                /\ clockOffset' = candidateOffset
                /\ lastPong' = [rtt |-> rtt, candidate |-> candidateOffset,
                                up |-> channel.up, down |-> down, verdict |-> "accepted"]
    /\ channel' = NoMsg
    /\ UNCHANGED <<skew, syncVars>>
    /\ UNCHANGED <<orchVars, linkVars, extVars>>

\* The probe or its reply never arrives: no handler runs.
LoseMessage ==
    /\ channel # NoMsg
    /\ channel' = NoMsg
    /\ UNCHANGED <<skew, recentRTTs, clockOffset, retainedOffsets, lastPong, syncVars>>
    /\ UNCHANGED <<orchVars, linkVars, extVars>>

\* ------------------------------------------------------------------ sync timers

\* syncClock reaches the host: the caller is a follower (`if (isHost) return`)
\* and sendTo finds an open connection to the host.
SyncClockSends(client, conns) ==
    /\ client # NoClient
    /\ ~client.isHost
    /\ GetPeerId(client.roomId) \in conns

\* syncClock() run by `trigger`: the constructor's timer, a tick or a direct call.
SyncClockBy(trigger, t1) ==
    IF SyncClockSends(p2pClient, connections)
    THEN /\ channel' = [type |-> "__ping", t1 |-> t1, to |-> GetPeerId(p2pClient.roomId)]
         /\ firstProbe' = IF firstProbe = "none" THEN trigger ELSE firstProbe
    ELSE UNCHANGED <<channel, firstProbe>>

\* startPeriodicSync gets past its two guards and calls setInterval.
StartsInterval(client, handle) ==
    /\ client # NoClient
    /\ ~client.isHost
    /\ ~handle

\* The body of startPeriodicSync.
SetSyncInterval ==
    IF StartsInterval(p2pClient, syncInterval)
    THEN /\ syncInterval' = TRUE
         /\ intervals' = intervals + 1
    ELSE UNCHANGED <<syncInterval, intervals>>

\* `new OdpWebSocket(...)` with a follower tag: initialize(false, roomId) and
\* the 2 s timer that will start the clock synchronisation.
ConstructFollower(roomId) ==
    /\ kickoff = "none"
    /\ ~p2pInitialized
    /\ InitializeClient(FALSE, roomId)
    /\ kickoff' = "pending"
    /\ UNCHANGED <<skew, channel, recentRTTs, clockOffset, retainedOffsets, lastPong,
                   syncInterval, intervals, firstProbe>>
    /\ UNCHANGED extVars

\* The constructor's timer fires: syncClock(), then startPeriodicSync().
KickoffFires ==
    /\ kickoff = "pending"
    /\ kickoff' = "fired"
    /\ \E t1 \in SendTimes : SyncClockBy("kickoff", t1)
    /\ SetSyncInterval
    /\ UNCHANGED <<skew, recentRTTs, clockOffset, retainedOffsets, lastPong>>
    /\ UNCHANGED <<orchVars, linkVars, extVars>>

\* A further call of P2POrchestrator.startPeriodicSync().
StartPeriodicSync ==
    /\ SetSyncInterval
    /\ UNCHANGED <<skew, channel, recentRTTs, clockOffset, retainedOffsets, lastPong,
                   kickoff, firstProbe>>
    /\ UNCHANGED <<orchVars, linkVars, extVars>>

\* A call of P2POrchestrator.syncClock() made by no timer.
CallSyncClock ==
    /\ \E t1 \in SendTimes : SyncClockBy("call", t1)
    /\ UNCHANGED <<skew, recentRTTs, clockOffset, retainedOffsets, lastPong,
                   syncInterval, intervals, kickoff>>
    /\ UNCHANGED <<orchVars, linkVars, extVars>>

\* A running interval timer ticks: `if (this.connections.size > 0) this.syncClock()`.
PeriodicTick ==
    /\ intervals > 0
    /\ IF connections # {}
       THEN \E t1 \in SendTimes : SyncClockBy("tick", t1)
       ELSE UNCHANGED <<channel, firstProbe>>
    /\ UNCHANGED <<skew, recentRTTs, clockOffset, retainedOffsets, lastPong,
                   syncInterval, intervals, kickoff>>
    /\ UNCHANGED <<orchVars, linkVars, extVars>>

\* ------------------------------------------------------------------ connection lifecycle

\* `Math.min(3000 * Math.pow(1.5, n), 60000)`, in units of 1 / Scale ms.
BackoffDelay(n) ==
    IF n >= MAX_RETRIES
    THEN MAX_DELAY * Scale
    ELSE LET d == BASE_DELAY * (3 ^ n) * (2 ^ (MAX_RETRIES - n))
         IN  IF d < MAX_DELAY * Scale THEN d ELSE MAX_DELAY * Scale

\* connectToHost(retryCount): a new DataConnection and its 5 s connectionTimeout.
ConnectToHost(retryCount) ==
    [state |-> "connecting", retryCount |-> retryCount, timer |-> "pending"]

\* peer.on("open"): the Peer is registered; a follower connects to the host.
PeerOpen ==
    /\ peer = "opening"
    /\ peer' = "open"
    /\ initialized' = TRUE
    /\ hostConn' = IF p2pClient.isHost THEN hostConn ELSE ConnectToHost(0)
    /\ UNCHANGED <<initRetry, initTimer, retryTimer, reconnectAttempts, lastDelay>>
    /\ UNCHANGED <<orchVars, clockVars, extVars>>

\* The retry condition with the bound included.
ShouldRetryInitInclusive(isHost, retryCount) == isHost /\ retryCount <= MAX_INIT_RETRIES

\* init: `this.options.isHost && retryCount < 3`
ShouldRetryInit(isHost, retryCount) == isHost /\ retryCount < MAX_INIT_RETRIES

\* peer.on("error") with type "unavailable-id": the host retries up to 3 times.
PeerUnavailableId ==
    /\ peer = "opening"
    /\ peer' = "error"
    /\ initTimer' = IF ShouldRetryInit(p2pClient.isHost, initRetry)
                     THEN [pending |-> TRUE, retryCount |-> initRetry + 1,
                           delay |-> INIT_RETRY_DELAY]
                     ELSE initTimer
    /\ UNCHANGED <<initialized, initRetry, hostConn, retryTimer, reconnectAttempts,
                   lastDelay>>
    /\ UNCHANGED <<orchVars, clockVars, extVars>>

\* The retry timer of init fires: init(retryCount + 1) creates a new Peer.
InitRetry ==
    /\ initTimer.pending
    /\ initTimer' = NoInitTimer
    /\ IF initialized
       THEN UNCHANGED <<peer, initRetry>>
       ELSE /\ peer' = "opening"
            /\ initRetry' = initTimer.retryCount
    /\ UNCHANGED <<initialized, hostConn, retryTimer, reconnectAttempts, lastDelay>>
    /\ UNCHANGED <<orchVars, clockVars, extVars>>

\* conn.on("open") of the connection to the host (both listeners): the
\* connectionTimeout is cleared, the connection enters the map and the
\* reconnect counter is reset.
HostConnOpen ==
    /\ hostConn.state = "connecting"
    /\ hostConn' = [hostConn EXCEPT !.state = "open",
                                    !.timer = IF @ = "pending" THEN "cleared" ELSE @]
    /\ connections' = connections \cup {GetPeerId(p2pClient.roomId)}
    /\ keyOrder' = SetKey(keyOrder, GetPeerId(p2pClient.roomId))
    /\ UNCHANGED <<liveConns, lastConn>>
    /\ reconnectAttempts' = 0
    /\ lastDelay' = 0
    /\ firstProbe' = "none"
    /\ UNCHANGED <<peer, initialized, initRetry, initTimer, retryTimer>>
    /\ UNCHANGED <<skew, channel, recentRTTs, clockOffset, retainedOffsets, lastPong,
                   syncInterval, intervals, kickoff>>
    /\ UNCHANGED <<initializeCalls, initVars, gateVars, extVars>>

\* conn.on("close") of the connection to the host: reconnect with backoff.
HostConnClose ==
    /\ hostConn.state = "open"
    /\ hostConn' = [hostConn EXCEPT !.state = "closed"]
    /\ connections' = connections \ {GetPeerId(p2pClient.roomId)}
    /\ keyOrder' = DeleteKey(keyOrder, GetPeerId(p2pClient.roomId))
    /\ UNCHANGED <<liveConns, lastConn>>
    /\ IF ~p2pClient.isHost
       THEN /\ lastDelay' = BackoffDelay(reconnectAttempts)
            /\ reconnectAttempts' = reconnectAttempts + 1
            /\ retryTimer' = [pending |-> TRUE, retryCount |-> 0]
       ELSE UNCHANGED <<lastDelay, reconnectAttempts, retryTimer>>
    /\ UNCHANGED <<peer, initialized, initRetry, initTimer>>
    /\ UNCHANGED <<initializeCalls, initVars, gateVars, clockVars, extVars>>

\* conn.on("error") of the connection to the host: it leaves the map.
HostConnError ==
    /\ hostConn.state \in {"connecting", "open"}
    /\ GetPeerId(p2pClient.roomId) \in connections
    /\ connections' = connections \ {GetPeerId(p2pClient.roomId)}
    /\ keyOrder' = DeleteKey(keyOrder, GetPeerId(p2pClient.roomId))
    /\ UNCHANGED <<liveConns, lastConn>>
    /\ UNCHANGED linkVars
    /\ UNCHANGED <<initializeCalls, initVars, gateVars, clockVars, extVars>>

\* The 5 s connectionTimeout fires on a connection that has not opened: the
\* attempt is closed and the next one scheduled, until maxRetries is reached.
\* (close() of a DataConnection that never opened emits no "close" event.)
ConnectionTimeout ==
    /\ hostConn.timer = "pending"
    /\ IF hostConn.state # "open" /\ hostConn.retryCount < MAX_RETRIES
       THEN /\ hostConn' = [hostConn EXCEPT !.state = "closed", !.timer = "fired"]
            /\ retryTimer' = [pending |-> TRUE, retryCount |-> hostConn.retryCount + 1]
            /\ lastDelay' = BackoffDelay(hostConn.retryCount)
       ELSE /\ hostConn' = [hostConn EXCEPT !.timer = "fired"]
            /\ UNCHANGED <<retryTimer, lastDelay>>
    /\ UNCHANGED <<peer, initialized, initRetry, initTimer, reconnectAttempts>>
    /\ UNCHANGED <<orchVars, clockVars, extVars>>

\* A scheduled retry fires: connectToHost(n).
RetryConnect ==
    /\ retryTimer.pending
    /\ retryTimer' = NoTimer
    /\ hostConn' = IF peer = "none" THEN hostConn ELSE ConnectToHost(retryTimer.retryCount)
    /\ UNCHANGED <<peer, initialized, initRetry, initTimer, reconnectAttempts, lastDelay>>
    /\ UNCHANGED <<orchVars, clockVars, extVars>>

\* ------------------------------------------------------------------ game state

\* getReplayMessages without the `if (!this.isMidSong)` around the song entries.
GetReplayMessagesAlways(gs) ==
    LET st == gs.state
    IN  gs.players \o SelectSeq(<<st.tabRest, st.navRest, st.selected, st.coachSelected,
                                   st.neverDanceAlone, st.launched, st.start>>,
                                 LAMBDA m : m # Null)

\* GameStateManager.getReplayMessages
GetReplayMessages(gs) ==
    LET st == gs.state
        set(q) == SelectSeq(q, LAMBDA m : m # Null)
    IN  gs.players
            \o set(<<st.tabRest, st.navRest>>)
            \o (IF ~gs.isMidSong
                THEN set(<<st.selected, st.coachSelected, st.neverDanceAlone>>)
                         \o set(<<st.launched, st.start>>)
                ELSE <<>>)

\* A reset that also forgets the menu position.
ResetSongStateAndMenu(st) ==
    [st EXCEPT !.tabRest = Null, !.navRest = Null, !.selected = Null,
               !.coachSelected = Null, !.neverDanceAlone = Null, !.launched = Null,
               !.start = Null]

\* GameStateManager.resetSongState
ResetSongState(st) ==
    [st EXCEPT !.selected = Null, !.coachSelected = Null, !.neverDanceAlone = Null,
               !.launched = Null, !.start = Null]

\* GameStateManager.handleMessage
GameStateHandleMessage(gs, msg) ==
    LET ps == IF msg.func = "playerJoined" THEN Append(gs.players, msg)
              ELSE IF msg.func = "playerLeft"
                   THEN SelectSeq(gs.players, LAMBDA q : q.id # msg.id)
                   ELSE gs.players
        st == gs.state
    IN  IF msg.func = "tabRest" THEN [gs EXCEPT !.players = ps, !.state.tabRest = msg]
        ELSE IF msg.func = "navRest" THEN [gs EXCEPT !.players = ps, !.state.navRest = msg]
        ELSE IF msg.func = "songSelected"
             THEN [gs EXCEPT !.players = ps, !.state.selected = msg]
        ELSE IF msg.func = "coachSelected"
             THEN [gs EXCEPT !.players = ps, !.state.coachSelected = msg]
        ELSE IF msg.func = "neverDanceAlone"
             THEN [gs EXCEPT !.players = ps, !.state.neverDanceAlone = msg]
        ELSE IF msg.func = "songLaunched"
             THEN [gs EXCEPT !.players = ps, !.state.launched = msg]
        ELSE IF msg.func = "songStart"
             THEN [gs EXCEPT !.players = ps, !.state.start = msg, !.isMidSong = TRUE]
        ELSE IF msg.func \in {"songEnd", "returnToLobby"}
             THEN [gs EXCEPT !.players = ps, !.state = ResetSongState(st),
                             !.isMidSong = FALSE]
        ELSE [gs EXCEPT !.players = ps]

\* The late joiners are released by songEnd only.
ClearsWaitingSongEndOnly(msg) == msg.func = "songEnd"

\* handleMessage: `msg.func === "songEnd" || msg.func === "returnToLobby"`
ClearsWaiting(msg) == msg.func \in {"songEnd", "returnToLobby"}

\* handleMessage: the registration message to cache for the handshake.
CacheRegistration(cached, msg) == IF msg \in RegisterMessages THEN msg ELSE cached

\* P2POrchestrator.handleMessage
HandleMessage(msg) ==
    /\ msg.func = "playerJoined" => Len(gameState.players) < MaxPlayers
    /\ cachedRegisterRoomMsg' = CacheRegistration(cachedRegisterRoomMsg, msg)
    /\ gameState' = GameStateHandleMessage(gameState, msg)
    /\ peersWaitingForSong' = IF ClearsWaiting(msg) THEN {} ELSE peersWaitingForSong
    /\ UNCHANGED <<replayed, initializingPeers, shakes, lastSent, upstream, p2pDataVars>>
    /\ UNCHANGED <<orchVars, clockVars, linkVars>>

\* A caller asks for the replay: `this.gameState.getReplayMessages()`.
GetReplay ==
    /\ replayed' = [called |-> TRUE, msgs |-> GetReplayMessages(gameState)]
    /\ UNCHANGED <<gameState, shakeVars, upstream, p2pDataVars, orchVars, clockVars, linkVars>>

\* ------------------------------------------------------------------ handshake and relay

\* isPeerAlive: `this.p2pClient?.isPeerConnected(peerId) ?? false`
IsPeerAlive(peerId) == p2pClient # NoClient /\ peerId \in connections

\* The handshake with the registration record and the confirmation swapped.
StepMessageConfirmFirst(pc, i, cached) ==
    CASE pc = "ping" -> SyncPing(i)
      [] pc = "syncDone" -> ClientSyncCompleted
      [] pc = "register" -> ConnectedMsg
      [] pc = "connected" -> cached

\* The message each step of handleNewPeerConnection hands to safeSendTo.
StepMessage(pc, i, cached) ==
    CASE pc = "ping" -> SyncPing(i)
      [] pc = "syncDone" -> ClientSyncCompleted
      [] pc = "register" -> cached
      [] pc = "connected" -> ConnectedMsg

\* The step that follows a successful send.
StepAfter(pc, i) ==
    CASE pc = "ping" -> IF i + 1 < SYNC_PINGS THEN "ping" ELSE "syncDone"
      [] pc = "syncDone" -> "register"
      [] pc = "register" -> "connected"
      [] pc = "connected" -> "replaySettle"

\* The sequence k sends msg to its peer: p2pClient.sendTo.
ShakeSends(k, msg) ==
    lastSent' = {[to |-> shakes[k].peer, msg |-> msg, from |-> "handshake"]}

\* The sequence k returns early and leaves its marker behind.
ShakeAbortsKeepsMarker(k) ==
    /\ shakes' = [shakes EXCEPT ![k].pc = "aborted", ![k].failed = TRUE]
    /\ UNCHANGED initializingPeers
    /\ lastSent' = {}

\* The sequence k returns early: the marker is released.
ShakeAborts(k) ==
    /\ shakes' = [shakes EXCEPT ![k].pc = "aborted", ![k].failed = TRUE]
    /\ initializingPeers' = initializingPeers \ {shakes[k].peer}
    /\ lastSent' = {}

\* `this.pendingRTTProbes.set(peerId, ...)` by the sequence k: the one entry of
\* its peer id now holds the callback of k.
SetProbeHandler(s, k) ==
    [j \in 1..Len(s) |->
        IF s[j].peer = s[k].peer THEN [s[j] EXCEPT !.handler = (j = k)] ELSE s[j]]

\* `this.pendingRTTProbes.delete(peerId)`: whichever sequence's callback is there.
DeleteProbeHandler(s, peerId) ==
    [j \in 1..Len(s) |->
        IF s[j].peer = peerId THEN [s[j] EXCEPT !.handler = FALSE] ELSE s[j]]

\* The sequence k resumes after `await this.sleep(500)`: liveness check, then
\* measurePeerRTT registers its callback and sends the probe.
ShakeSettled(k) ==
    /\ k \in 1..Len(shakes)
    /\ shakes[k].pc = "settle"
    /\ IF ~IsPeerAlive(shakes[k].peer)
       THEN ShakeAborts(k)
       ELSE /\ shakes' = [SetProbeHandler(shakes, k) EXCEPT
                             ![k].pc = "rtt", ![k].sent = Append(@, RttProbe),
                             ![k].probe = "sent"]
            /\ ShakeSends(k, RttProbe)
            /\ UNCHANGED initializingPeers
    /\ UNCHANGED <<gameState, replayed, cachedRegisterRoomMsg, peersWaitingForSong, upstream, p2pDataVars>>
    /\ UNCHANGED <<orchVars, clockVars, linkVars>>

\* The 2 s timeout of measurePeerRTT fires: it deletes the entry of the peer id
\* and resolves the promise with the fallback; the sequence reaches the first
\* `await this.sleep(100)`.
ShakeMeasured(k) ==
    /\ k \in 1..Len(shakes)
    /\ shakes[k].pc = "rtt"
    /\ shakes' = [DeleteProbeHandler(shakes, shakes[k].peer) EXCEPT
                     ![k].pc = "ping", ![k].i = 0,
                     ![k].rtt = RTT_FALLBACK, ![k].by = "timeout"]
    /\ lastSent' = {}
    /\ UNCHANGED <<gameState, replayed, cachedRegisterRoomMsg, initializingPeers,
                   peersWaitingForSong, upstream, p2pDataVars>>
    /\ UNCHANGED <<orchVars, clockVars, linkVars>>

\* The follower that the probe of the sequence k was sent to receives it: the
\* data passes the filter of its data handler, its handleP2PData tests only
\* the two host branches, and the probe goes to the onmessage interceptor and
\* on to the game's handler. Nothing is sent back.
FollowerOnProbe(k) ==
    /\ k \in 1..Len(shakes)
    /\ shakes[k].probe = "sent"
    /\ shakes[k].peer \in connections
    /\ shakes' = [shakes EXCEPT ![k].probe = "toGame"]
    /\ lastSent' = {}
    /\ UNCHANGED <<gameState, replayed, cachedRegisterRoomMsg, initializingPeers,
                   peersWaitingForSong, upstream, p2pDataVars>>
    /\ UNCHANGED <<orchVars, clockVars, linkVars>>

\* The round trips `Date.now() - echoT1` an echo may give.
EchoRTTs == {41, 120}

\* The host's handleP2PData for `{__type: "__rttEcho", t1}` of a connected peer,
\* t1 being that of the probe of the sequence j: handleRTTEcho calls the
\* callback held under the peer id, which clears its timeout, deletes the
\* entry and resolves its promise with rtt; without an entry nothing happens.
HandleRTTEcho(peerId, j, rtt) ==
    LET ks == {k \in 1..Len(shakes) : shakes[k].peer = peerId /\ shakes[k].handler}
    IN  /\ p2pInitialized /\ p2pClient.isHost
        /\ peerId \in connections
        /\ j \in 1..Len(shakes)
        /\ shakes[j].peer = peerId /\ shakes[j].probe # "none"
        /\ shakes' = IF ks = {} THEN shakes
                      ELSE LET k == CHOOSE k \in ks : TRUE
                           IN  [DeleteProbeHandler(shakes, peerId) EXCEPT
                                   ![k].pc = "ping", ![k].i = 0,
                                   ![k].rtt = rtt, ![k].by = "echo", ![k].of = j]
        /\ lastSent' = {}
        /\ UNCHANGED <<gameState, replayed, cachedRegisterRoomMsg, initializingPeers,
                       peersWaitingForSong, upstream, p2pDataVars>>
        /\ UNCHANGED <<orchVars, clockVars, linkVars>>

\* Steps 2 to 5: after its sleep the sequence k sends through safeSendTo and
\* returns if the peer is gone. Steps 4 and 5 send only if a registration
\* message is cached.
ShakeSafeSend(k) ==
    LET sh == shakes[k]
    IN  /\ k \in 1..Len(shakes)
        /\ sh.pc \in {"ping", "syncDone", "register", "connected"}
        /\ IF sh.pc \in {"register", "connected"} /\ cachedRegisterRoomMsg = Null
           THEN /\ shakes' = [shakes EXCEPT ![k].pc = StepAfter(sh.pc, sh.i)]
                /\ lastSent' = {}
                /\ UNCHANGED initializingPeers
           ELSE IF ~IsPeerAlive(sh.peer)
                THEN ShakeAborts(k)
                ELSE LET msg == StepMessage(sh.pc, sh.i, cachedRegisterRoomMsg)
                     IN  /\ shakes' = [shakes EXCEPT
                                          ![k].pc = StepAfter(sh.pc, sh.i),
                                          ![k].i = IF sh.pc = "ping" THEN sh.i + 1 ELSE sh.i,
                                          ![k].latency = IF sh.pc = "syncDone"
                                                         THEN Latency(sh.rtt) ELSE @,
                                          ![k].sent = Append(@, msg)]
                         /\ ShakeSends(k, msg)
                         /\ UNCHANGED initializingPeers
        /\ UNCHANGED <<gameState, replayed, cachedRegisterRoomMsg, peersWaitingForSong,
                       upstream, p2pDataVars>>
        /\ UNCHANGED <<orchVars, clockVars, linkVars>>

\* Step 6 after `await this.sleep(400)`: liveness check, the replay is taken
\* from the snapshot and a peer joining mid-song is set to wait.
ShakeReplayStarts(k) ==
    LET sh == shakes[k]
        msgs == GetReplayMessages(gameState)
    IN  /\ k \in 1..Len(shakes)
        /\ sh.pc = "replaySettle"
        /\ IF ~IsPeerAlive(sh.peer)
           THEN /\ ShakeAborts(k)
                /\ UNCHANGED peersWaitingForSong
           ELSE /\ peersWaitingForSong' = IF gameState.isMidSong
                                           THEN peersWaitingForSong \cup {sh.peer}
                                           ELSE peersWaitingForSong
                /\ shakes' = [shakes EXCEPT
                                 ![k].pc = IF msgs = <<>> THEN "final" ELSE "replay",
                                 ![k].replay = msgs]
                /\ lastSent' = {}
                /\ UNCHANGED initializingPeers
        /\ UNCHANGED <<gameState, replayed, cachedRegisterRoomMsg, upstream, p2pDataVars>>
        /\ UNCHANGED <<orchVars, clockVars, linkVars>>

\* The replay loop after `await this.sleep(200)`: `this.safeSendTo(peerId, msg)`,
\* whose result is not looked at.
ShakeReplays(k) ==
    LET sh == shakes[k]
        msg == Head(sh.replay)
        rest == Tail(sh.replay)
        next == IF rest = <<>> THEN "final" ELSE "replay"
    IN  /\ k \in 1..Len(shakes)
        /\ sh.pc = "replay"
        /\ IF ~IsPeerAlive(sh.peer)
           THEN /\ shakes' = [shakes EXCEPT ![k].pc = next, ![k].replay = rest,
                                            ![k].failed = TRUE]
                /\ initializingPeers' = initializingPeers \ {sh.peer}
                /\ lastSent' = {}
           ELSE /\ shakes' = [shakes EXCEPT ![k].pc = next, ![k].replay = rest,
                                            ![k].sent = Append(@, msg)]
                /\ ShakeSends(k, msg)
                /\ UNCHANGED initializingPeers
        /\ UNCHANGED <<gameState, replayed, cachedRegisterRoomMsg, peersWaitingForSong,
                       upstream, p2pDataVars>>
        /\ UNCHANGED <<orchVars, clockVars, linkVars>>

\* After `await this.sleep(1000)`: the peer is marked initialized.
ShakeCompletes(k) ==
    /\ k \in 1..Len(shakes)
    /\ shakes[k].pc = "final"
    /\ shakes' = [shakes EXCEPT ![k].pc = "done"]
    /\ initializingPeers' = initializingPeers \ {shakes[k].peer}
    /\ lastSent' = {}
    /\ UNCHANGED <<gameState, replayed, cachedRegisterRoomMsg, peersWaitingForSong, upstream, p2pDataVars>>
    /\ UNCHANGED <<orchVars, clockVars, linkVars>>

\* broadcastMessage without the late-joiner filter.
RelayTargetsNoWaiting(msg, peerIds, initializing, waiting) == peerIds \ initializing

\* broadcastMessage: the peers the message is sent to.
RelayTargets(msg, peerIds, initializing, waiting) ==
    {p \in peerIds :
        /\ p \notin initializing
        /\ ~(msg.func \in GameplayFuncs /\ p \in waiting)}

\* P2PClient.broadcast: every connection that is open.
BroadcastTargets(conns) == conns

\* handleHostMessage on a host that is initialized: initialize() (a no-op
\* then) for a registration message, handleMessage, broadcastMessage.
TrackAndBroadcast(msg) ==
    /\ p2pInitialized /\ p2pClient.isHost
    /\ IF msg \in RegisterMessages
       THEN /\ initializeCalls < MaxInitCalls
            /\ initializeCalls' = initializeCalls + 1
       ELSE UNCHANGED initializeCalls
    /\ cachedRegisterRoomMsg' = CacheRegistration(cachedRegisterRoomMsg, msg)
    /\ gameState' = GameStateHandleMessage(gameState, msg)
    /\ peersWaitingForSong' = IF ClearsWaiting(msg) THEN {} ELSE peersWaitingForSong
    /\ lastSent' = {[to |-> p, msg |-> msg, from |-> "relay"] :
                        p \in RelayTargets(msg, GetPeerIds(p2pClient, connections),
                                           initializingPeers, peersWaitingForSong')}
    /\ UNCHANGED <<replayed, initializingPeers, shakes, upstream>>
    /\ UNCHANGED <<initVars, connections, tableVars, gateVars, clockVars, linkVars>>

\* A message of the host's server reaches the onmessage interceptor.
HandleHostMessage(msg) == TrackAndBroadcast(msg) /\ UNCHANGED p2pDataVars

\* handleHostMessage: `msg.roomNumber` of a message that is no registration.
HasRoomNumber(msg) == "roomNumber" \in DOMAIN msg

\* The room a message names: `msg.roomNumber || msg.roomID`.
RoomOf(msg) == IF msg.id = 1 THEN "r1" ELSE "r2"

\* handleHostMessage on a host whose orchestrator is not initialized yet: a
\* registration message, or else any message with a roomNumber, initializes
\* it as host; then handleMessage, and broadcastMessage with no peer yet.
HandleHostMessageUninitialized(msg) ==
    /\ ~p2pInitialized
    /\ IF msg \in RegisterMessages \/ HasRoomNumber(msg)
       THEN /\ initializeCalls < MaxInitCalls
            /\ initializeCalls' = initializeCalls + 1
            /\ p2pInitialized' = TRUE
            /\ p2pClient' = [isHost |-> TRUE, roomId |-> RoomOf(msg)]
            /\ clientsCreated' = clientsCreated + 1
            /\ connectionListeners' = connectionListeners + 1
            /\ peer' = "opening"
            /\ initRetry' = 0
       ELSE UNCHANGED <<initializeCalls, initVars, peer, initRetry>>
    /\ cachedRegisterRoomMsg' = CacheRegistration(cachedRegisterRoomMsg, msg)
    /\ gameState' = GameStateHandleMessage(gameState, msg)
    /\ peersWaitingForSong' = IF ClearsWaiting(msg) THEN {} ELSE peersWaitingForSong
    /\ lastSent' = {}
    /\ UNCHANGED <<replayed, initializingPeers, shakes, upstream, p2pDataVars>>
    /\ UNCHANGED <<initialized, initTimer, hostConn, retryTimer, reconnectAttempts,
                   lastDelay>>
    /\ UNCHANGED <<connections, tableVars, gateVars, clockVars>>

\* OdpWebSocket.send of songStart on the host: handleMessage, broadcastRaw of
\* the message and of the SongStart timestamp, then the real send.
HostSendsSongStart ==
    LET msg == [func |-> "songStart", id |-> 1]
    IN  /\ p2pInitialized /\ p2pClient.isHost
        /\ cachedRegisterRoomMsg' = CacheRegistration(cachedRegisterRoomMsg, msg)
        /\ gameState' = GameStateHandleMessage(gameState, msg)
        /\ peersWaitingForSong' = IF ClearsWaiting(msg) THEN {} ELSE peersWaitingForSong
        /\ lastSent' = {[to |-> p, msg |-> m, from |-> "raw"] :
                            p \in BroadcastTargets(connections), m \in {msg, SongStartMsg}}
        /\ upstream' = upstream \cup {msg}
        /\ UNCHANGED p2pDataVars
        /\ UNCHANGED <<replayed, initializingPeers, shakes>>
        /\ UNCHANGED <<orchVars, clockVars, linkVars>>

\* ------------------------------------------------------------------ forwarded payloads

\* A payload as the host receives it: its `typeof`, and its characters when
\* it is a string.
StringPayload(chars) == [type |-> "string", chars |-> chars]
NonStringPayloads == {[type |-> t, chars |-> <<>>] : t \in {"number", "object", "undefined"}}

\* The 4-character length prefix wsObjectToString puts before the JSON text.
Prefix == <<"0", "0", "0", "0">>
Digits == {"0", "1"}
Quote == "\""

RECURSIVE TextsUpTo(_)
\* The texts of at most n characters over the characters `{`, `}` and `1`.
TextsUpTo(n) ==
    IF n = 0 THEN {<<>>}
    ELSE LET shorter == TextsUpTo(n - 1)
         IN  shorter \cup {Append(t, c) : t \in shorter, c \in {"{", "}", "1"}}

\* Texts with a string in them: "1", {"1":1}, {"1":{}}, {"1":} and "1 .
QuotedTexts ==
    {<<Quote, "1", Quote>>,
     <<"{", Quote, "1", Quote, ":", "1", "}">>,
     <<"{", Quote, "1", Quote, ":", "{", "}", "}">>,
     <<"{", Quote, "1", Quote, ":", "}">>,
     <<Quote, "1">>}

\* What follows the prefix in the payloads a peer may send.
Remainders == TextsUpTo(MaxRemainder) \cup QuotedTexts

\* Payloads: prefixed texts, strings too short or without a prefix, and
\* values that are no strings.
Payloads ==
    {StringPayload(Prefix \o r) : r \in Remainders}
        \cup {StringPayload(t) : t \in {<<>>, <<"{", "}">>, <<"0", "0", "0">>,
                                        <<"{", "}", "{", "}", "1">>,
                                        <<"{", Quote, "1", Quote, ":", "1", "}">>}}
        \cup NonStringPayloads

\* forwardToHost: `{ __type: "__forward", payload: data }`
ForwardEnvelope(payload) == [type |-> "__forward", payload |-> payload]
ForwardEnvelopes == {ForwardEnvelope(payload) : payload \in Payloads}
\* A __forward control record that has no payload field.
BareForward == [type |-> "__forward"]
\* A JDN message a peer sends to the host as it is, outside any envelope.
PeerMessages == {[func |-> "playerScore", id |-> 2]}
P2PData == ForwardEnvelopes \cup {BareForward} \cup PeerMessages

\* JSON.parse of a string: the position after its closing quote, 0 if none.
ParseString(s, i) ==
    IF i > Len(s) \/ s[i] # Quote THEN 0
    ELSE LET closing == {j \in (i + 1)..Len(s) : s[j] = Quote}
         IN  IF closing = {} THEN 0
             ELSE (CHOOSE j \in closing : \A k \in closing : j <= k) + 1

\* JSON.parse of a number: "0", or a digit other than 0 and the digits after it.
ParseNumber(s, i) ==
    IF i > Len(s) \/ s[i] \notin Digits THEN 0
    ELSE IF s[i] = "0" THEN i + 1
    ELSE LET rest == {j \in (i + 1)..(Len(s) + 1) :
                         \A k \in (i + 1)..(j - 1) : s[k] \in Digits}
         IN  CHOOSE j \in rest : \A k \in rest : k <= j

RECURSIVE ParseValue(_, _)
\* JSON.parse of the value that starts at position i: the position after it,
\* 0 where JSON.parse throws.
ParseValue(s, i) ==
    IF i > Len(s) THEN 0
    ELSE IF s[i] = Quote THEN ParseString(s, i)
    ELSE IF s[i] \in Digits THEN ParseNumber(s, i)
    ELSE IF s[i] # "{" THEN 0
    ELSE IF i + 1 <= Len(s) /\ s[i + 1] = "}" THEN i + 2
    ELSE LET colon == ParseString(s, i + 1)
         IN  IF colon = 0 \/ colon > Len(s) \/ s[colon] # ":" THEN 0
             ELSE LET brace == ParseValue(s, colon + 1)
                  IN  IF brace = 0 \/ brace > Len(s) \/ s[brace] # "}" THEN 0
                      ELSE brace + 1

\* JSON.parse that stops at the end of the first value.
JSONParseFirstValue(s) == ParseValue(s, 1) > 0

\* JSON.parse(s) returns (TRUE) or throws (FALSE).
JSONParse(s) == ParseValue(s, 1) = Len(s) + 1

\* wsStringToObject: `JSON.parse(m.substring(4, m.length))`
WsStringToObject(m) == JSONParse(SubSeq(m, 5, Len(m)))

\* isP2PControlMessage and isJDNMessage, the filter of P2PClient's data handler.
IsP2PControlMessage(data) == "type" \in DOMAIN data
IsJDNMessage(data) == "func" \in DOMAIN data

\* handleP2PData: the test of its __forward branch.
IsForward(data) ==
    IsP2PControlMessage(data) /\ data.type = "__forward" /\ "payload" \in DOMAIN data

\* handleP2PData: what becomes of a forwarded payload.
ForwardVerdict(payload) ==
    IF payload.type = "string" /\ Len(payload.chars) > 4
    THEN IF WsStringToObject(payload.chars) THEN "relayed" ELSE "rejected"
    ELSE "ignored"

\* The JDN message the onmessage interceptor parses out of dispatched data.
AsMessage(data) == IF IsJDNMessage(data) THEN data ELSE [func |-> "undefined", id |-> 0]

\* The host's handleP2PData for data of a connected peer: a __forward envelope
\* is relayed upstream or dropped; anything else goes to the onmessage
\* interceptor (handleHostMessage, then the game's handler).  An __rttEcho
\* ends the measurement of the handshake (ShakeMeasured).
HandleP2PData(data, peerId) ==
    /\ p2pInitialized /\ p2pClient.isHost
    /\ peerId \in connections
    /\ IsP2PControlMessage(data) \/ IsJDNMessage(data)
    /\ IF IsForward(data)
       THEN LET verdict == ForwardVerdict(data.payload)
            IN  /\ verdict = "relayed" =>
                        \/ data.payload.chars \in upstream
                        \/ Cardinality(upstream) < MaxUpstream
                /\ upstream' = IF verdict = "relayed"
                               THEN upstream \cup {data.payload.chars}
                               ELSE upstream
                /\ lastForward' = [payload |-> data.payload, verdict |-> verdict]
                /\ UNCHANGED deferVars
                /\ lastSent' = {}
                /\ UNCHANGED <<gameState, replayed, cachedRegisterRoomMsg,
                               initializingPeers, peersWaitingForSong, shakes,
                               delivered>>
                /\ UNCHANGED <<orchVars, clockVars, linkVars>>
       ELSE /\ TrackAndBroadcast(AsMessage(data))
            /\ delivered' = delivered \cup {data}
            /\ UNCHANGED <<lastForward, deferVars>>

\* ------------------------------------------------------------------ results deferral

\* onmessage: `const endFuncs = ["results", "songEnd"]`
EndFuncs == {"results", "songEnd"}
\* The messages a follower's onmessage interceptor is handed.
InMessages == {[func |-> f, id |-> 1] : f \in EndFuncs \cup {"playerScore"}}

\* The follower's interceptor defers the message: an end message while the
\* video is playing.
Defers(msg, playing) == msg.func \in EndFuncs /\ playing

\* The follower's onmessage interceptor for a JDN message: an end message
\* is queued while the video plays, and startDeferralWatcher sets the 30 s
\* timer and the 500 ms poll unless a poll is set already; any other
\* message goes to the game's handler.
FollowerOnMessage(msg) ==
    /\ p2pInitialized /\ ~p2pClient.isHost
    /\ IF Defers(msg, videoPlaying)
       THEN /\ Len(deferredMessages) < MaxDeferred
            /\ deferredMessages' = Append(deferredMessages, msg)
            /\ deferralTimer' = (videoEndWatcher => deferralTimer)
            /\ videoEndWatcher' = TRUE
            /\ UNCHANGED gameReceived
       ELSE /\ gameReceived' = gameReceived \cup {msg}
            /\ UNCHANGED <<deferredMessages, deferralTimer, videoEndWatcher>>
    /\ UNCHANGED <<videoPlaying, lastFlush>>
    /\ UNCHANGED <<gameState, replayed, shakeVars, upstream, delivered, lastForward>>
    /\ UNCHANGED <<orchVars, clockVars, linkVars>>

\* flushDeferredMessages: both timers are cleared, the queue is emptied and
\* each message is dispatched again through the onmessage interceptor, which
\* defers it again if the video is playing.
FlushDeferredMessages(by) ==
    /\ lastFlush' = by
    /\ IF deferredMessages = <<>>
       THEN /\ deferralTimer' = FALSE
            /\ videoEndWatcher' = FALSE
            /\ UNCHANGED <<deferredMessages, gameReceived>>
       ELSE IF videoPlaying
       THEN /\ deferralTimer' = TRUE
            /\ videoEndWatcher' = TRUE
            /\ UNCHANGED <<deferredMessages, gameReceived>>
       ELSE /\ deferralTimer' = FALSE
            /\ videoEndWatcher' = FALSE
            /\ deferredMessages' = <<>>
            /\ gameReceived' = gameReceived
                                  \cup {deferredMessages[i] : i \in 1..Len(deferredMessages)}
    /\ UNCHANGED videoPlaying
    /\ UNCHANGED <<gameState, replayed, shakeVars, upstream, delivered, lastForward>>
    /\ UNCHANGED <<orchVars, clockVars, linkVars>>

\* The 30 s safety timer fires.
DeferralTimeout ==
    /\ deferralTimer
    /\ FlushDeferredMessages("timeout")

\* The 500 ms poll finds no video playing.
WatcherPoll ==
    /\ videoEndWatcher
    /\ ~videoPlaying
    /\ FlushDeferredMessages("poll")

\* The follower's video starts, or stops (paused, ended or removed).
VideoChanges ==
    /\ videoPlaying' = ~videoPlaying
    /\ UNCHANGED <<deferredMessages, deferralTimer, videoEndWatcher, gameReceived, lastFlush>>
    /\ UNCHANGED <<gameState, replayed, shakeVars, upstream, delivered, lastForward>>
    /\ UNCHANGED <<orchVars, clockVars, linkVars>>

\* ------------------------------------------------------------------ the follower's send

\* forwardToHost: `peerIds[0]` of getPeerIds(), if there is any.
ForwardTargets(client, order) ==
    IF client = NoClient \/ order = <<>> THEN {} ELSE {order[1]}

\* OdpWebSocket.send: `const skipFuncs = [...]`
SkipFuncs == {"connect", "registerRoom", "ping", "pong"}
AutoPong == [func |-> "pong", id |-> 0]
\* The string messages the follower's game sends; func "" is a string from
\* which extractFunctionString gets no func.
OutMessages ==
    {[func |-> f, id |-> 1] : f \in SkipFuncs \cup {"playerMoves", "playerFeedBack", ""}}

\* OdpWebSocket.send on a follower, for a string: a ping is answered with a
\* pong handed to handleP2PData, a message outside skipFuncs goes to
\* forwardToHost, and nothing reaches the real WebSocket.
FollowerSend(msg) ==
    /\ p2pInitialized /\ ~p2pClient.isHost
    /\ IF msg.func = "ping"
       THEN /\ delivered' = delivered \cup {AutoPong}
            /\ lastSent' = {}
       ELSE /\ lastSent' = IF msg.func \in SkipFuncs
                           THEN {}
                           ELSE {[to |-> p, msg |-> ForwardEnvelope(msg), from |-> "forward"] :
                                    p \in ForwardTargets(p2pClient, keyOrder)}
            /\ UNCHANGED delivered
    /\ UNCHANGED <<gameState, replayed, cachedRegisterRoomMsg, initializingPeers,
                   peersWaitingForSong, shakes, upstream, lastForward, deferVars>>
    /\ UNCHANGED <<orchVars, clockVars, linkVars>>

\* A control record no handler tests for, and a value that is no control
\* record, no func-tagged message and no string.
UnknownControl == [type |-> "__bogus"]
Untagged == [kind |-> "number"]
\* The probe of a follower's clock synchronisation, as the host receives it.
PingData == [type |-> "__ping"]
PongReply == [func |-> "__pong", id |-> 0]
PeerData == {UnknownControl, Untagged, BareForward, PingData,
             ForwardEnvelope([type |-> "number", chars |-> <<>>]),
             ForwardEnvelope(StringPayload(Prefix \o <<"{", "}">>))}
                \cup PeerMessages

\* The filter before onData: a control record, a func-tagged message or a string.
PassesFilter(data) == IsP2PControlMessage(data) \/ IsJDNMessage(data)

\* The host's data handler of a peer's connection: a __ping is answered, data
\* that fails the filter is dropped, and the rest goes to onData, that is to
\* handleP2PData.
OnPeerData(data, peerId) ==
    IF IsP2PControlMessage(data) /\ data.type = "__ping"
    THEN /\ p2pInitialized /\ p2pClient.isHost
         /\ peerId \in connections
         /\ lastSent' = {[to |-> peerId, msg |-> PongReply, from |-> "clock"]}
         /\ UNCHANGED <<gameState, replayed, cachedRegisterRoomMsg, initializingPeers,
                        peersWaitingForSong, shakes, upstream, p2pDataVars>>
         /\ UNCHANGED <<orchVars, clockVars, linkVars>>
    ELSE IF ~PassesFilter(data)
    THEN /\ p2pInitialized /\ p2pClient.isHost
         /\ peerId \in connections
         /\ lastSent' = {}
         /\ UNCHANGED <<gameState, replayed, cachedRegisterRoomMsg, initializingPeers,
                        peersWaitingForSong, shakes, upstream, p2pDataVars>>
         /\ UNCHANGED <<orchVars, clockVars, linkVars>>
    ELSE HandleP2PData(data, peerId)

\* ------------------------------------------------------------------ specification

\* The follower's clock state before any exchange.
\* No sync timer set and no probe sent.
SyncIdle ==
    /\ syncInterval = FALSE
    /\ intervals = 0
    /\ kickoff = "none"
    /\ firstProbe = "none"

ClockIdle ==
    /\ SyncIdle
    /\ skew = 0
    /\ channel = NoMsg
    /\ recentRTTs = <<>>
    /\ clockOffset = 0
    /\ retainedOffsets = <<>>
    /\ lastPong = NoPong

\* The snapshot empty and no replay asked for.
ExtIdle ==
    /\ gameState = NewGameState
    /\ replayed = NoReplay
    /\ cachedRegisterRoomMsg = Null
    /\ initializingPeers = {}
    /\ peersWaitingForSong = {}
    /\ shakes = <<>>
    /\ lastSent = {}
    /\ upstream = {}
    /\ delivered = {}
    /\ lastForward = NoForward
    /\ DeferIdle

\* A P2PClient whose Peer is registered, with no reconnection under way.
LinkOpen ==
    /\ peer = "open"
    /\ initialized = TRUE
    /\ initRetry = 0
    /\ initTimer = NoInitTimer
    /\ retryTimer = NoTimer
    /\ reconnectAttempts = 0
    /\ lastDelay = 0

\* The gates untouched, as the field initialisers leave them.
GatesInit ==
    /\ readyPeers = {}
    /\ finishedPeers = {}
    /\ hostVideoReady = FALSE
    /\ songStartResolver = 0
    /\ resultsSyncResolver = 0
    /\ syncTimeout = 0
    /\ waits = <<>>
    /\ arrived = {}

\* The host's orchestrator once initialize(true, "r1") has run.
Init ==
    /\ initializeCalls = 1
    /\ p2pInitialized = TRUE
    /\ p2pClient = [isHost |-> TRUE, roomId |-> "r1"]
    /\ clientsCreated = 1
    /\ connectionListeners = 1
    /\ connections = {}
    /\ TableInit
    /\ GatesInit
    /\ ExtIdle
    /\ ClockIdle
    /\ LinkOpen
    /\ hostConn = NoConn

\* The orchestrator as its constructor leaves it.
ConnInit ==
    /\ initializeCalls = 0
    /\ p2pInitialized = FALSE
    /\ p2pClient = NoClient
    /\ clientsCreated = 0
    /\ connectionListeners = 0
    /\ connections = {}
    /\ TableInit
    /\ GatesInit
    /\ ExtIdle
    /\ ClockIdle
    /\ peer = "none"
    /\ initialized = FALSE
    /\ initRetry = 0
    /\ initTimer = NoInitTimer
    /\ hostConn = NoConn
    /\ retryTimer = NoTimer
    /\ reconnectAttempts = 0
    /\ lastDelay = 0

Next ==
    \/ \E peerId \in Peers : ConnOpen(peerId)
    \/ \E peerId \in Peers : ConnClose(peerId)
    \/ ResetSyncGates
    \/ MarkHostVideoReady
    \/ \E peerId \in Peers : HandleReadyToStart(peerId)
    \/ \E peerId \in Peers : HandleReadyForResults(peerId)
    \/ WaitForAllReady
    \/ WaitForAllFinished
    \/ \E id \in 1..MaxWaits : StartTimeout(id)
    \/ \E id \in 1..MaxWaits : ResultsTimeout(id)

Spec == Init /\ [][Next]_vars

ConnNext ==
    \/ \E isHost \in BOOLEAN, roomId \in RoomIds : Initialize(isHost, roomId)
    \/ PeerOpen
    \/ PeerUnavailableId
    \/ InitRetry
    \/ HostConnOpen
    \/ HostConnClose
    \/ HostConnError
    \/ ConnectionTimeout
    \/ RetryConnect
    \/ \E peerId \in Peers : ConnOpen(peerId)
    \/ \E peerId \in Peers : ConnClose(peerId)

SpecConn == ConnInit /\ [][ConnNext]_vars

\* The same with a remote peer that may have several connections open.
TableNext ==
    \/ ConnNext
    \/ \E peerId \in Peers : ConnOpenAgain(peerId)
    \/ \E peerId \in Peers, c \in 1..(2 * MaxConns) : ConnCloseOf(peerId, c)

SpecTable == ConnInit /\ [][TableNext]_vars

\* One participant from the construction of its OdpWebSocket, with the sync
\* timers of a follower and the connection to the host coming and going.
SyncNext ==
    \/ \E roomId \in RoomIds : ConstructFollower(roomId)
    \/ \E roomId \in RoomIds : Initialize(TRUE, roomId)
    \/ KickoffFires
    \/ StartPeriodicSync
    \/ CallSyncClock
    \/ PeriodicTick
    \/ PeerOpen
    \/ HostConnOpen
    \/ HostConnClose
    \/ HostConnError
    \/ ConnectionTimeout
    \/ RetryConnect

SpecSync == ConnInit /\ [][SyncNext]_vars

\* A follower from the construction of its OdpWebSocket: the connection to
\* the host coming and going, other peers connecting to it, its clock probes
\* and the messages its game sends.
StarNext ==
    \/ \E roomId \in RoomIds : ConstructFollower(roomId)
    \/ KickoffFires
    \/ PeriodicTick
    \/ PeerOpen
    \/ HostConnOpen
    \/ HostConnClose
    \/ ConnectionTimeout
    \/ RetryConnect
    \/ \E peerId \in Peers : ConnOpen(peerId)
    \/ \E peerId \in Peers : ConnClose(peerId)
    \/ \E msg \in OutMessages : FollowerSend(msg)

SpecStar == ConnInit /\ [][StarNext]_vars

\* The messages the host's server sends it while followers come and go.
HostMessages ==
    {[func |-> f, id |-> 1] : f \in {"songSelected", "playerScore", "songEnd",
                                     "returnToLobby"}}

\* The host after its first connect message and a tabRest: initialized,
\* registration cached, the menu position in the snapshot.
ShakeInit ==
    /\ initializeCalls = 1
    /\ p2pInitialized = TRUE
    /\ p2pClient = [isHost |-> TRUE, roomId |-> "r1"]
    /\ clientsCreated = 1
    /\ connectionListeners = 1
    /\ connections = {}
    /\ TableInit
    /\ GatesInit
    /\ ClockIdle
    /\ LinkOpen
    /\ hostConn = NoConn
    /\ gameState = GameStateHandleMessage(NewGameState, [func |-> "tabRest", id |-> 1])
    /\ replayed = NoReplay
    /\ cachedRegisterRoomMsg = [func |-> "connect", id |-> 1]
    /\ initializingPeers = {}
    /\ peersWaitingForSong = {}
    /\ shakes = <<>>
    /\ lastSent = {}
    /\ upstream = {}
    /\ delivered = {}
    /\ lastForward = NoForward
    /\ DeferIdle

ShakeNext ==
    \/ \E peerId \in Peers : ConnOpen(peerId)
    \/ \E peerId \in Peers : ConnClose(peerId)
    \/ \E k \in 1..MaxShakes : ShakeSettled(k)
    \/ \E k \in 1..MaxShakes : ShakeMeasured(k)
    \/ \E k \in 1..MaxShakes : ShakeSafeSend(k)
    \/ \E k \in 1..MaxShakes : ShakeReplayStarts(k)
    \/ \E k \in 1..MaxShakes : ShakeReplays(k)
    \/ \E k \in 1..MaxShakes : ShakeCompletes(k)
    \/ \E msg \in HostMessages : HandleHostMessage(msg)
    \/ HostSendsSongStart

SpecShake == ShakeInit /\ [][ShakeNext]_vars

\* The sequence k resumes from the await it is at: every sleep ends, and the
\* promise of measurePeerRTT resolves by its 2 s timeout at the latest.
ShakeStep(k) ==
    /\ k \in 1..Len(shakes)
    /\ \/ ShakeSettled(k)
       \/ ShakeMeasured(k)
       \/ ShakeSafeSend(k)
       \/ ShakeReplayStarts(k)
       \/ ShakeReplays(k)
       \/ ShakeCompletes(k)

SpecShakeFair == SpecShake /\ \A k \in 1..MaxShakes : WF_vars(ShakeStep(k))

\* The host's handshake with followers that run this extension.
RttNext ==
    \/ \E peerId \in Peers : ConnOpen(peerId)
    \/ \E peerId \in Peers : ConnClose(peerId)
    \/ \E k \in 1..MaxShakes : ShakeSettled(k)
    \/ \E k \in 1..MaxShakes : FollowerOnProbe(k)
    \/ \E k \in 1..MaxShakes : ShakeMeasured(k)
    \/ \E k \in 1..MaxShakes : ShakeSafeSend(k)
    \/ \E k \in 1..MaxShakes : ShakeReplayStarts(k)
    \/ \E k \in 1..MaxShakes : ShakeReplays(k)
    \/ \E k \in 1..MaxShakes : ShakeCompletes(k)

SpecRtt == ShakeInit /\ [][RttNext]_vars

\* The same with peers that answer a probe by an __rttEcho.
EchoNext ==
    \/ RttNext
    \/ \E peerId \in Peers, j \in 1..MaxShakes, rtt \in EchoRTTs :
            HandleRTTEcho(peerId, j, rtt)

SpecEcho == ShakeInit /\ [][EchoNext]_vars

ReplayNext ==
    \/ \E msg \in JDNMessages : HandleMessage(msg)
    \/ GetReplay

SpecReplay == Init /\ [][ReplayNext]_vars

ForwardNext ==
    \/ \E peerId \in Peers : ConnOpen(peerId)
    \/ \E peerId \in Peers : ConnClose(peerId)
    \/ \E data \in P2PData, peerId \in Peers : HandleP2PData(data, peerId)

SpecForward == Init /\ [][ForwardNext]_vars

\* The host receiving data from its peers, well-formed and not.
PeerDataNext ==
    \/ \E peerId \in Peers : ConnOpen(peerId)
    \/ \E peerId \in Peers : ConnClose(peerId)
    \/ \E data \in PeerData, peerId \in Peers : OnPeerData(data, peerId)

SpecPeerData == Init /\ [][PeerDataNext]_vars

\* The host in the middle of a song: ShakeInit, then its game sent songStart.
LateInit ==
    /\ initializeCalls = 1
    /\ p2pInitialized = TRUE
    /\ p2pClient = [isHost |-> TRUE, roomId |-> "r1"]
    /\ clientsCreated = 1
    /\ connectionListeners = 1
    /\ connections = {}
    /\ TableInit
    /\ GatesInit
    /\ ClockIdle
    /\ LinkOpen
    /\ hostConn = NoConn
    /\ gameState = GameStateHandleMessage(
                       GameStateHandleMessage(NewGameState, [func |-> "tabRest", id |-> 1]),
                       [func |-> "songStart", id |-> 1])
    /\ replayed = NoReplay
    /\ cachedRegisterRoomMsg = [func |-> "connect", id |-> 1]
    /\ initializingPeers = {}
    /\ peersWaitingForSong = {}
    /\ shakes = <<>>
    /\ lastSent = {}
    /\ upstream = {[func |-> "songStart", id |-> 1]}
    /\ delivered = {}
    /\ lastForward = NoForward
    /\ DeferIdle

\* The follower that joins during the song.
LateJoiner == "f2"

\* One follower joins during the song, and stays, while the host waits at
\* its gates.
LateNext ==
    \/ ConnOpen(LateJoiner)
    \/ \E k \in 1..MaxShakes : ShakeSettled(k)
    \/ \E k \in 1..MaxShakes : ShakeMeasured(k)
    \/ \E k \in 1..MaxShakes : ShakeSafeSend(k)
    \/ \E k \in 1..MaxShakes : ShakeReplayStarts(k)
    \/ \E k \in 1..MaxShakes : ShakeReplays(k)
    \/ \E k \in 1..MaxShakes : ShakeCompletes(k)
    \/ HandleHostMessage([func |-> "songEnd", id |-> 1])
    \/ MarkHostVideoReady
    \/ HandleReadyToStart(LateJoiner)
    \/ HandleReadyForResults(LateJoiner)
    \/ WaitForAllReady
    \/ WaitForAllFinished
    \/ \E id \in 1..MaxWaits : StartTimeout(id)
    \/ \E id \in 1..MaxWaits : ResultsTimeout(id)

SpecLate == LateInit /\ [][LateNext]_vars

\* What the host's server sends it: its connect message, some other message
\* that carries a roomNumber, and a tabRest.
JoinMessages == {[func |-> "connect", id |-> 1],
                 [func |-> "other", id |-> 1, roomNumber |-> 1],
                 [func |-> "tabRest", id |-> 1]}

\* A host from the construction of its orchestrator, and the followers that
\* connect to it.
JoinNext ==
    \/ \E msg \in JoinMessages : HandleHostMessageUninitialized(msg)
    \/ \E msg \in JoinMessages : HandleHostMessage(msg)
    \/ PeerOpen
    \/ \E peerId \in Peers : ConnOpen(peerId)
    \/ \E peerId \in Peers : ConnClose(peerId)
    \/ \E k \in 1..MaxShakes : ShakeSettled(k)
    \/ \E k \in 1..MaxShakes : ShakeMeasured(k)
    \/ \E k \in 1..MaxShakes : ShakeSafeSend(k)
    \/ \E k \in 1..MaxShakes : ShakeReplayStarts(k)
    \/ \E k \in 1..MaxShakes : ShakeReplays(k)
    \/ \E k \in 1..MaxShakes : ShakeCompletes(k)

SpecJoin == ConnInit /\ [][JoinNext]_vars

\* The host with some followers connected (before any registration was
\* cached, so that no handshake runs) and its gates untouched.
OrderInit ==
    /\ initializeCalls = 1
    /\ p2pInitialized = TRUE
    /\ p2pClient = [isHost |-> TRUE, roomId |-> "r1"]
    /\ clientsCreated = 1
    /\ connectionListeners = 1
    /\ connections \in SUBSET Peers
    /\ TableInit
    /\ GatesInit
    /\ ExtIdle
    /\ ClockIdle
    /\ LinkOpen
    /\ hostConn = NoConn

\* The one call of waitForAllReady, and of waitForAllFinished, of an activity.
OnlyWaitForAllReady ==
    /\ \A id \in 1..Len(waits) : waits[id].gate # "start"
    /\ WaitForAllReady

OnlyWaitForAllFinished ==
    /\ \A id \in 1..Len(waits) : waits[id].gate # "results"
    /\ WaitForAllFinished

\* One activity with a fixed set of followers: the signals and one wait call
\* per gate arrive in any order, and no timeout fires.
OrderNext ==
    \/ MarkHostVideoReady
    \/ \E peerId \in Peers : HandleReadyToStart(peerId)
    \/ \E peerId \in Peers : HandleReadyForResults(peerId)
    \/ OnlyWaitForAllReady
    \/ OnlyWaitForAllFinished

SpecOrder == OrderInit /\ [][OrderNext]_vars

\* The host with one follower connected, and the messages its server sends
\* it: two of each tracked kind, so that a slot can be overwritten, the
\* players joining and leaving, and a score, which the tracker ignores.
TrackInit ==
    /\ OrderInit
    /\ connections = {"f1"}

TrackMessages ==
    {[func |-> f, id |-> i] :
        f \in SlotFuncs \cup {"songEnd", "returnToLobby", "playerJoined", "playerLeft",
                              "playerScore"},
        i \in PlayerIds}

\* The onmessage interceptor of the host hands over one message of its server.
HostObserves(msg) ==
    /\ msg.func = "playerJoined" => Len(gameState.players) < MaxPlayers
    /\ HandleHostMessage(msg)

TrackNext == \E msg \in TrackMessages : HostObserves(msg)

SpecTrack == TrackInit /\ [][TrackNext]_vars

\* A connected follower and its host, whose clocks differ by an unknown skew.
ClockInit ==
    /\ skew \in Skews
    /\ channel = NoMsg
    /\ recentRTTs = <<>>
    /\ clockOffset = 0
    /\ retainedOffsets = <<>>
    /\ lastPong = NoPong
    /\ SyncIdle
    /\ initializeCalls = 1
    /\ p2pInitialized = TRUE
    /\ p2pClient = [isHost |-> FALSE, roomId |-> "r1"]
    /\ clientsCreated = 1
    /\ connectionListeners = 0
    /\ connections = {HostPeerId}
    /\ TableInit
    /\ GatesInit
    /\ ExtIdle
    /\ LinkOpen
    /\ hostConn = [state |-> "open", retryCount |-> 0, timer |-> "cleared"]

ClockNext ==
    \/ \E t1 \in SendTimes : SyncClock(t1)
    \/ \E up \in Delays : HostOnPing(up)
    \/ \E down \in Delays : FollowerOnPong(down)
    \/ LoseMessage

SpecClock == ClockInit /\ [][ClockNext]_vars

\* A connected follower receiving messages while its video starts and stops.
DeferNext ==
    \/ \E msg \in InMessages : FollowerOnMessage(msg)
    \/ DeferralTimeout
    \/ WatcherPoll
    \/ VideoChanges

SpecDefer == ClockInit /\ [][DeferNext]_vars

\* ------------------------------------------------------------------ sync gates

ActivePeers == GetPeerIds(p2pClient, connections)

\* The wait `id` is settled in this step: its promise was not resolved before
\* (or the wait did not exist) and is resolved after.
Settles(id) ==
    /\ id \in 1..Len(waits')
    /\ waits'[id].promise = "resolved"
    /\ id \in 1..Len(waits) => waits[id].promise = "pending"

AnyStartTimeout == \E t \in 1..MaxWaits : StartTimeout(t)
AnyResultsTimeout == \E t \in 1..MaxWaits : ResultsTimeout(t)

\* A step that evaluates the start gate for the registered wait.
StartEvaluation ==
    \/ MarkHostVideoReady
    \/ \E p \in connections : HandleReadyToStart(p)

\* A step that evaluates the completion gate for the registered wait.
ResultsEvaluation == \E p \in connections : HandleReadyForResults(p)

C3_NoGateWaitHangs ==
    \A id \in 1..Len(waits) :
        waits[id].promise = "pending" => waits[id].timer = "pending"

PendingTimers(gate) ==
    {id \in 1..Len(waits) : waits[id].gate = gate /\ waits[id].timer = "pending"}

\* C4: the gates are independent: a start-gate operation leaves the
\* completion gate's resolver and pending timeouts unchanged, and a
\* completion-gate operation leaves those of the start gate unchanged.
C4_GatesIndependent ==
    [][ /\ (MarkHostVideoReady \/ (\E p \in Peers : HandleReadyToStart(p)) \/ AnyStartTimeout) =>
              /\ resultsSyncResolver' = resultsSyncResolver
              /\ PendingTimers("results")' = PendingTimers("results")
        /\ ((\E p \in Peers : HandleReadyForResults(p)) \/ AnyResultsTimeout) =>
              /\ songStartResolver' = songStartResolver
              /\ PendingTimers("start")' = PendingTimers("start")
      ]_vars

\* C5: a follower that disconnected while a wait awaited its signal does not
\* hold the gate: at the next evaluation after which every follower still
\* connected has signalled (and, for the start gate, the host is ready), the
\* registered wait is settled although the lost follower never signalled.
C5_DisconnectedExcluded ==
    [][ /\ ( /\ StartEvaluation
             /\ songStartResolver # 0
             /\ waits[songStartResolver].lost # {}
             /\ hostVideoReady'
             /\ \A p \in connections' : p \in readyPeers' ) =>
              waits'[songStartResolver].promise = "resolved"
        /\ ( /\ ResultsEvaluation
             /\ resultsSyncResolver # 0
             /\ waits[resultsSyncResolver].lost # {}
             /\ \A p \in connections' : p \in finishedPeers' ) =>
              waits'[resultsSyncResolver].promise = "resolved"
      ]_vars

\* C5 witness: a start wait and a completion wait were each settled by an
\* evaluation while a follower they had awaited was gone and had not signalled.
C5_Witness ==
    \E a, b \in 1..Len(waits) :
        /\ waits[a].gate = "start" /\ waits[a].how = "check"
        /\ \E p \in waits[a].lost : p \notin connections /\ p \notin readyPeers
        /\ waits[b].gate = "results" /\ waits[b].how = "check"
        /\ \E p \in waits[b].lost : p \notin connections /\ p \notin finishedPeers

\* ------------------------------------------------------------------ clock claims

Range(s) == {s[i] : i \in 1..Len(s)}

\* The k-th smallest entry of s, by counting.
KthSmallest(s, k) ==
    CHOOSE x \in Range(s) :
        /\ Cardinality({i \in 1..Len(s) : s[i] < x}) < k
        /\ Cardinality({i \in 1..Len(s) : s[i] <= x}) >= k

LowerMedian(s) == KthSmallest(s, (Len(s) + 1) \div 2)
UpperMedian(s) == KthSmallest(s, (Len(s) \div 2) + 1)
\* Twice the median: the middle entry, or the mean of the two middle entries.
TwiceMedian(s) == LowerMedian(s) + UpperMedian(s)

\* A step in which the follower handles a __pong.
PongStep == \E down \in Delays : FollowerOnPong(down)

Accepted(rtt, candidate) ==
    /\ recentRTTs' = PushSample(recentRTTs, rtt)
    /\ clockOffset' = candidate

\* C6: after an accepted sample the effective clockOffset is the median of
\* the offsets of the retained samples (any value between the two middle
\* ones when their number is even), not the latest candidate.
C6_OffsetIsMedian ==
    retainedOffsets # <<>> =>
        /\ LowerMedian(retainedOffsets) <= clockOffset
        /\ clockOffset <= UpperMedian(retainedOffsets)

HostTimes == {5000, 5001}

\* C8: the follower computes rtt = t4 - t1 (the true round trip) and
\* candidateOffset = t4 - (serverNow + rtt / 2); when the two one-way delays
\* are equal, the candidate is exactly follower clock minus host clock, and
\* once accepted a host timestamp plus clockOffset is that instant on the
\* follower's clock.
C8_CandidateOffset ==
    [][ PongStep =>
          /\ lastPong'.rtt = lastPong'.up + lastPong'.down
          /\ lastPong'.candidate = 2 * skew + lastPong'.down - lastPong'.up
          /\ lastPong'.up = lastPong'.down =>
                /\ lastPong'.candidate = 2 * skew
                /\ lastPong'.verdict = "accepted" =>
                      \A h \in HostTimes : AdjustedTime(h, clockOffset') = 2 * (h + skew)
      ]_vars

\* C8 witness: a reply with equal one-way delays was accepted.
C8_Witness ==
    /\ lastPong.verdict = "accepted"
    /\ lastPong.up = lastPong.down
    /\ clockOffset = 2 * skew

\* ------------------------------------------------------------------ connection claims

\* C9: initialize is idempotent: a call made once the orchestrator is
\* initialized, whatever its arguments, creates no P2PClient, registers no
\* "connection" listener and changes nothing else of the orchestrator or of
\* its client.
C9_InitializeIdempotent ==
    [][ (initializeCalls' = initializeCalls + 1 /\ p2pInitialized) =>
          /\ clientsCreated' = clientsCreated
          /\ connectionListeners' = connectionListeners
          /\ UNCHANGED <<p2pInitialized, p2pClient, connections, gateVars, linkVars,
                         clockVars>>
      ]_vars

\* C9 witness: initialize was called a second time, with other arguments
\* (a follower of room r2 on the host of room r1), after a follower had
\* connected; there is still one client and one listener.
C9_Witness ==
    /\ initializeCalls = 2
    /\ p2pClient = [isHost |-> TRUE, roomId |-> "r1"]
    /\ clientsCreated = 1
    /\ connectionListeners = 1
    /\ connections # {}

\* A step that schedules the follower's next attempt to reach the host.
SchedulesRetry == retryTimer'.pending /\ ~retryTimer.pending

\* C10: across consecutive failed attempts (a lost connection or an attempt
\* that timed out) the delay before the next attempt is the 3 s base for the
\* first failure since a connection opened, and 1.5 times the previous delay,
\* capped at 60 s, for each following one.
C10_BackoffIncreases ==
    [][ SchedulesRetry =>
          IF lastDelay = 0
          THEN lastDelay' = BASE_DELAY * Scale
          ELSE IF 3 * lastDelay >= 2 * MAX_DELAY * Scale
               THEN lastDelay' = MAX_DELAY * Scale
               ELSE 2 * lastDelay' = 3 * lastDelay
      ]_vars

\* C11: a follower never gives up: whenever its Peer is registered and it has
\* no open connection to the host, an attempt is within its connection
\* timeout or the next attempt is scheduled.
C11_AlwaysRetrying ==
    (p2pClient # NoClient /\ ~p2pClient.isHost /\ initialized /\ hostConn.state # "open") =>
        \/ hostConn.state = "connecting" /\ hostConn.timer = "pending"
        \/ retryTimer.pending

\* C12: when the registration of the Peer fails with unavailable-id, a host
\* that has made fewer than 3 retries schedules the next one 2 s later, and a
\* host that has made 3, or a follower, schedules nothing; never more than 3
\* retries are made, and once stopped the client makes no further attempt.
C12_HostIdCollision ==
    [][ /\ (peer = "opening" /\ peer' = "error") =>
              IF p2pClient.isHost /\ initRetry < 3
              THEN initTimer' = [pending |-> TRUE, retryCount |-> initRetry + 1,
                                 delay |-> 2000]
              ELSE ~initTimer'.pending
        /\ initRetry' <= 3
        /\ (peer = "error" /\ ~initTimer.pending) =>
              (peer' = "error" /\ ~initTimer'.pending /\ initRetry' = initRetry)
      ]_vars

\* C12 witness: a host stopped after its third retry failed, no timer pending.
C12_Witness ==
    /\ p2pClient # NoClient
    /\ p2pClient.isHost
    /\ peer = "error"
    /\ initRetry = 3
    /\ ~initTimer.pending

\* ------------------------------------------------------------------ replay claims

\* The place of a message in the replay order, by its func.
ReplayRank(m) ==
    CASE m.func = "playerJoined" -> 1
      [] m.func = "tabRest" -> 2
      [] m.func = "navRest" -> 3
      [] m.func = "songSelected" -> 4
      [] m.func = "coachSelected" -> 5
      [] m.func = "neverDanceAlone" -> 6
      [] m.func = "songLaunched" -> 7
      [] m.func = "songStart" -> 8
      [] OTHER -> 0

\* The snapshot entries a replay includes: all of them, or only tabRest and
\* navRest when a song is playing.
ReplayedEntries(gs) ==
    LET st == gs.state
    IN  {st.tabRest, st.navRest}
            \cup (IF gs.isMidSong THEN {}
                  ELSE {st.selected, st.coachSelected, st.neverDanceAlone, st.launched,
                        st.start})

\* C17: getReplayMessages returns the players, then tabRest, navRest, and,
\* unless a song is playing, selected, coachSelected, neverDanceAlone,
\* launched, start, in that order, each entry exactly when it is set; while a
\* song is playing no selection, launch or start entry is returned.
C17_ReplayContent ==
    [][ GetReplay =>
          LET r == replayed'.msgs
              gs == gameState
          IN  /\ \A i, j \in 1..Len(r) :
                    i < j => /\ ReplayRank(r[i]) <= ReplayRank(r[j])
                             /\ ReplayRank(r[i]) = ReplayRank(r[j]) => ReplayRank(r[i]) = 1
              /\ SelectSeq(r, LAMBDA m : m.func = "playerJoined") = gs.players
              /\ {r[i] : i \in 1..Len(r)} \ {gs.players[i] : i \in 1..Len(gs.players)}
                    = ReplayedEntries(gs) \ {Null}
              /\ gs.isMidSong => \A i \in 1..Len(r) : ReplayRank(r[i]) <= 3
      ]_vars

\* C17 witness: a replay taken while a song plays returned the two players,
\* tabRest and navRest, and left out the selection that is set.
C17_Witness ==
    /\ replayed.called
    /\ gameState.isMidSong
    /\ gameState.state.selected # Null
    /\ gameState.state.start # Null
    /\ Len(gameState.players) = 2
    /\ replayed.msgs = gameState.players \o <<gameState.state.tabRest, gameState.state.navRest>>
    /\ gameState.state.tabRest # Null /\ gameState.state.navRest # Null

\* A replay taken between songs returned every selection and launch entry.
C17_FullReplayReached ==
    /\ replayed.called
    /\ ~gameState.isMidSong
    /\ Len(replayed.msgs) = 8

\* ------------------------------------------------------------------ handshake claims

\* The stage of the handshake a message belongs to.
ShakeRank(m) ==
    CASE m.func = "__rttProbe" -> 1
      [] m.func = "sync" -> 2
      [] m.func = "clientSyncCompleted" -> 3
      [] m.func = "connect" -> 4
      [] m.func = "06BJ Connected" -> 5
      [] OTHER -> 6

\* The number of messages of stage r in the log.
StageCount(log, r) == Cardinality({n \in 1..Len(log) : ShakeRank(log[n]) = r})

\* The follower of sequence k connected once and has stayed connected.
PeerStayed(k) ==
    /\ ~shakes[k].dropped
    /\ \A j \in 1..Len(shakes) : j # k => shakes[j].peer # shakes[k].peer

\* C13: to a follower that stays connected the host sends the handshake in
\* this order and no other: the RTT probe, the 5 sync pings, then
\* clientSyncCompleted, the cached registration record, the Connected
\* confirmation, then the replayed snapshot messages in replay order; no
\* stage is begun before the one before it is complete, and a finished
\* handshake has sent them all.
C13_HandshakeOrder ==
    \A k \in 1..Len(shakes) :
        PeerStayed(k) =>
            LET log == shakes[k].sent
                rp == SelectSeq(log, LAMBDA m : ShakeRank(m) = 6) \o shakes[k].replay
            IN  /\ \A a, b \in 1..Len(log) :
                      a < b => ShakeRank(log[a]) <= ShakeRank(log[b])
                /\ \A r \in {1, 3, 4, 5} : StageCount(log, r) <= 1
                /\ StageCount(log, 2) <= 5
                /\ \A n \in 1..Len(log) :
                      ShakeRank(log[n]) = 2 => log[n].id = n - 2
                /\ StageCount(log, 2) > 0 => StageCount(log, 1) = 1
                /\ StageCount(log, 3) > 0 => StageCount(log, 2) = 5
                /\ StageCount(log, 4) > 0 => StageCount(log, 3) = 1
                /\ StageCount(log, 5) > 0 => StageCount(log, 4) = 1
                /\ StageCount(log, 6) > 0 => StageCount(log, 5) = 1
                /\ \A a, b \in 1..Len(rp) : a < b => ReplayRank(rp[a]) < ReplayRank(rp[b])
                /\ shakes[k].pc = "done" => StageCount(log, 5) = 1 /\ shakes[k].replay = <<>>

\* C13 witness: a handshake has finished with a follower that stayed
\* connected, after replaying two snapshot messages.
C13_Witness ==
    \E k \in 1..Len(shakes) :
        /\ PeerStayed(k)
        /\ shakes[k].pc = "done"
        /\ StageCount(shakes[k].sent, 6) = 2

\* The sequence k still has a handshake message to send to its peer.
HasMessageToSend(k) ==
    shakes[k].pc \in {"settle", "rtt", "ping", "syncDone", "register", "connected", "replay"}

\* C14: while a handshake message is still to be sent to a connected peer,
\* the peer is in initializingPeers; it is removed only after the last step.
C14_InitializingUntilDone ==
    \A k \in 1..Len(shakes) :
        (HasMessageToSend(k) /\ IsPeerAlive(shakes[k].peer)) =>
            shakes[k].peer \in initializingPeers

\* C15: every message the host sends to a peer that is in initializingPeers
\* is a message of its handshake, whatever the host relays or sends itself.
C15_OnlyHandshakeTraffic ==
    \A m \in lastSent : m.to \in initializingPeers => m.from = "handshake"

\* C16: once a liveness check of a handshake sequence has found the peer
\* disconnected, the sequence sends that peer nothing more, and the failed
\* check removes the peer from initializingPeers.
C16_AbortSendsNothingMore ==
    [][ \A k \in 1..Len(shakes) :
          /\ shakes[k].failed => shakes'[k].sent = shakes[k].sent
          /\ (~shakes[k].failed /\ shakes'[k].failed) =>
                shakes[k].peer \notin initializingPeers'
      ]_vars

\* A step in which the host observes the end of the song.
ObservesSongEnd ==
    \E msg \in HostMessages :
        msg.func \in {"songEnd", "returnToLobby"} /\ HandleHostMessage(msg)

\* C18: a follower is added to peersWaitingForSong exactly by a replay step
\* that runs while isMidSong is true; it stays in the set, and no gameplay
\* message is relayed to it, until the host observes songEnd or
\* returnToLobby, which empties the set; a replay step that runs while
\* isMidSong is false leaves its follower out of the set.
C18_LateJoinerWaits ==
    [][ /\ \A k \in 1..Len(shakes) :
              (ShakeReplayStarts(k) /\ IsPeerAlive(shakes[k].peer)) =>
                  (shakes[k].peer \in peersWaitingForSong' <=> gameState.isMidSong)
        /\ \A p \in peersWaitingForSong' \ peersWaitingForSong :
              \E k \in 1..Len(shakes) :
                  ShakeReplayStarts(k) /\ shakes[k].peer = p /\ gameState.isMidSong
        /\ peersWaitingForSong' # peersWaitingForSong =>
              \/ peersWaitingForSong \subseteq peersWaitingForSong'
              \/ ObservesSongEnd
        /\ ObservesSongEnd => peersWaitingForSong' = {}
        /\ \A m \in lastSent' :
              (m.msg.func \in GameplayFuncs /\ m.from = "relay") =>
                  m.to \notin peersWaitingForSong
      ]_vars

\* C18 witness: both followers are through their handshake, f2 joined
\* mid-song and waits, and a playerScore was relayed to f1 alone.
C18_Witness ==
    /\ connections = {"f1", "f2"}
    /\ initializingPeers = {}
    /\ peersWaitingForSong = {"f2"}
    /\ lastSent = {[to |-> "f1", msg |-> [func |-> "playerScore", id |-> 1], from |-> "relay"]}

\* C19: broadcastMessage sends the observed message to exactly the connected
\* peers that are not in initializingPeers, leaving out, for a gameplay
\* message, those in peersWaitingForSong.
C19_RelayFilter ==
    [][ \A msg \in HostMessages :
          HandleHostMessage(msg) =>
              /\ \A m \in lastSent' : m.msg = msg /\ m.from = "relay"
              /\ {m.to : m \in lastSent'} =
                    {p \in connections :
                        /\ p \notin initializingPeers
                        /\ msg.func \in {"playerFeedBack", "playerScore", "playerMoves"}
                              => p \notin peersWaitingForSong}
      ]_vars

\* C19 witness: a songSelected was relayed to the waiting late joiner f2 and
\* not to f1, which is connected and still in its handshake.
C19_Witness ==
    /\ connections = {"f1", "f2"}
    /\ initializingPeers = {"f1"}
    /\ peersWaitingForSong = {"f2"}
    /\ lastSent = {[to |-> "f2", msg |-> [func |-> "songSelected", id |-> 1], from |-> "relay"]}

\* ------------------------------------------------------------------ forwarding claim

\* A number, a string and a JSON text, told by their shape.
IsNumberText(t) ==
    /\ Len(t) >= 1
    /\ \A i \in 1..Len(t) : t[i] \in Digits
    /\ Len(t) > 1 => t[1] # "0"

IsStringText(t) ==
    /\ Len(t) >= 2
    /\ t[1] = Quote /\ t[Len(t)] = Quote
    /\ \A i \in 2..(Len(t) - 1) : t[i] # Quote

RECURSIVE IsJsonText(_)
IsJsonText(t) ==
    \/ IsNumberText(t)
    \/ IsStringText(t)
    \/ /\ Len(t) >= 2
       /\ t[1] = "{" /\ t[Len(t)] = "}"
       /\ \/ Len(t) = 2
          \/ \E k \in 3..(Len(t) - 2) :
                /\ IsStringText(SubSeq(t, 2, k))
                /\ t[k + 1] = ":"
                /\ IsJsonText(SubSeq(t, k + 2, Len(t) - 1))

\* A payload is well-formed: a string longer than the 4-character prefix
\* whose remainder is a JSON text.
WellFormed(payload) ==
    /\ payload.type = "string"
    /\ Len(payload.chars) > 4
    /\ IsJsonText(SubSeq(payload.chars, 5, Len(payload.chars)))

\* C20: when the host handles a __forward envelope, the payload is sent
\* upstream if it is well-formed and nothing is sent upstream otherwise; in
\* both cases nothing is delivered to the host's game handler, nothing is
\* sent to a peer and the connections stay as they are.  Nothing else puts
\* a payload upstream.
C20_ForwardedPayloads ==
    [][/\ \A peerId \in Peers :
            LET data == ForwardEnvelope(lastForward'.payload)
            IN  HandleP2PData(data, peerId) =>
                /\ upstream' = IF WellFormed(data.payload)
                               THEN upstream \cup {data.payload.chars}
                               ELSE upstream
                /\ delivered' = delivered
                /\ lastSent' = {}
                /\ connections' = connections
       /\ upstream' # upstream =>
            \E payload \in Payloads :
                /\ WellFormed(payload)
                /\ upstream' = upstream \cup {payload.chars}]_vars

\* A follower's connection is open, a payload whose remainder does not parse
\* has just been dropped, and a well-formed one went upstream before it.
C20_Witness ==
    /\ lastForward.verdict = "rejected"
    /\ ~WellFormed(lastForward.payload)
    /\ lastForward.payload.chars \notin upstream
    /\ upstream # {}
    /\ connections # {}
    /\ delivered = {}

\* Payloads that are no strings, or no longer than the prefix, are dropped too.
C20_IgnoredReached ==
    /\ lastForward.verdict = "ignored"
    /\ lastForward.payload.type = "string"
    /\ Len(lastForward.payload.chars) = 3

\* ------------------------------------------------------------------ late joiners and the gates

\* The followers a gate counts when late joiners are left out.
BarrierMembers(conns, waiting) == conns \ waiting

\* C21: a follower in peersWaitingForSong is no member of the barriers: an
\* evaluation of a gate (a signal, the host's readiness, or the wait call
\* itself) after which every connected follower outside peersWaitingForSong
\* has signalled (and, for the start gate, the host is ready) settles the wait.
C21_LateJoinerExcluded ==
    [][ /\ ( /\ ResultsEvaluation
             /\ resultsSyncResolver # 0
             /\ \A p \in BarrierMembers(connections', peersWaitingForSong') :
                    p \in finishedPeers' ) =>
              waits'[resultsSyncResolver].promise = "resolved"
        /\ ( /\ WaitForAllFinished
             /\ \A p \in BarrierMembers(connections, peersWaitingForSong) :
                    p \in finishedPeers ) =>
              waits'[Len(waits')].promise = "resolved"
        /\ ( /\ StartEvaluation
             /\ songStartResolver # 0
             /\ hostVideoReady'
             /\ \A p \in BarrierMembers(connections', peersWaitingForSong') :
                    p \in readyPeers' ) =>
              waits'[songStartResolver].promise = "resolved"
        /\ ( /\ WaitForAllReady
             /\ hostVideoReady
             /\ \A p \in BarrierMembers(connections, peersWaitingForSong) :
                    p \in readyPeers ) =>
              waits'[Len(waits')].promise = "resolved"
      ]_vars

\* ------------------------------------------------------------------ one handshake per connection

\* C22: every follower connection the host accepts starts exactly one
\* handshake sequence for that peer, whatever the host had observed before.
C22_OneHandshakePerConnection ==
    [][\A peerId \in Peers :
          ConnOpen(peerId) =>
              /\ Len(shakes') = Len(shakes) + 1
              /\ shakes'[Len(shakes')] = NewShake(peerId)
              /\ peerId \in initializingPeers']_vars

\* ------------------------------------------------------------------ barrier rosters

\* C23: every member of readyPeers and of finishedPeers is a currently
\* connected peer.
C23_RosterConnected ==
    /\ readyPeers \subseteq ActivePeers
    /\ finishedPeers \subseteq ActivePeers

\* An earlier activity has passed its start gate.
EarlierCycle == \E id \in 1..Len(waits) : waits[id].gate = "start" /\ waits[id].promise = "resolved"

\* C24: when the start-gate wait of a new cycle begins, readyPeers and
\* finishedPeers are empty and the host is not marked ready, so no signal of
\* the earlier activity counts towards the new gate.
C24_RostersClearedPerCycle ==
    [][(WaitForAllReady /\ EarlierCycle) =>
          /\ readyPeers = {}
          /\ finishedPeers = {}
          /\ ~hostVideoReady]_vars

\* ------------------------------------------------------------------ arrival order

\* Whether a gate is open, told from the signals that arrived alone.
StartOpen(followers, signals) ==
    /\ Signal("hostReady", "host") \in signals
    /\ \A p \in followers : Signal("readyToStart", p) \in signals

ResultsOpen(followers, signals) ==
    \A p \in followers : Signal("readyForResults", p) \in signals

\* C25: with the followers fixed, whether a wait is resolved depends only on
\* which signals have arrived, not on their order nor on whether they came
\* before or after the wait call: the start wait is resolved exactly when
\* the host's readiness and every follower's ready signal have arrived, the
\* completion wait exactly when every follower's finished signal has.
C25_OrderIndependent ==
    \A id \in 1..Len(waits) :
        (waits[id].promise = "resolved") <=>
            IF waits[id].gate = "start"
            THEN StartOpen(connections, arrived)
            ELSE ResultsOpen(connections, arrived)

\* C25 witness: two followers, both waits resolved by a readiness check, all
\* five signals arrived.
C25_Witness ==
    /\ connections = Peers
    /\ Len(waits) = 2
    /\ \A id \in 1..2 : waits[id].promise = "resolved" /\ waits[id].how = "check"
    /\ Cardinality(arrived) = 5

\* Both waits pending with the signals of one follower still missing.
C25_PendingReached ==
    /\ connections = Peers
    /\ Len(waits) = 2
    /\ \A id \in 1..2 : waits[id].promise = "pending"
    /\ Cardinality(arrived) = 3

\* ------------------------------------------------------------------ monotonic resolution

\* C26: the resolver of a wait is invoked at most once, and a wait that is
\* resolved stays resolved as it was: no connection, disconnection, signal,
\* reset or timer changes its promise or invokes its resolver again.
C26_ResolutionMonotonic ==
    [][\A id \in 1..Len(waits') :
          /\ waits'[id].calls <= 1
          /\ (id <= Len(waits) /\ waits[id].promise = "resolved") =>
                /\ waits'[id].promise = "resolved"
                /\ waits'[id].how = waits[id].how
                /\ waits'[id].calls = waits[id].calls]_vars

\* C26 witness: a start wait resolved by the check, its resolver invoked once,
\* then a second start wait resolved by its timeout after the follower that
\* had signalled left.
C26_Witness ==
    /\ Len(waits) = 2
    /\ waits[1].gate = "start" /\ waits[1].how = "check" /\ waits[1].calls = 1
    /\ waits[2].gate = "start" /\ waits[2].how = "timeout" /\ waits[2].calls = 1
    /\ readyPeers # {}
    /\ connections = {}

\* ------------------------------------------------------------------ disconnection and the gates

\* C27: when a follower disconnects while a wait is registered, and every
\* follower still connected has signalled (and, for the start gate, the
\* host is ready), the disconnection itself settles the wait.
C27_DisconnectSettles ==
    [][\A peerId \in Peers :
          ConnClose(peerId) =>
              /\ ( /\ songStartResolver # 0
                   /\ hostVideoReady
                   /\ \A p \in connections' : p \in readyPeers ) =>
                    waits'[songStartResolver].promise = "resolved"
              /\ ( /\ resultsSyncResolver # 0
                   /\ \A p \in connections' : p \in finishedPeers ) =>
                    waits'[resultsSyncResolver].promise = "resolved"]_vars

\* ------------------------------------------------------------------ isolation of the handshake

\* The sequence k has returned.
ShakeEnded(k) == k <= Len(shakes) /\ shakes[k].pc \in {"done", "aborted"}

\* What a step about peerId may change: the sequences of peerId, the
\* membership of peerId in the two sets, and messages to peerId.
OnlyAbout(peerId) ==
    /\ \A j \in 1..Len(shakes) : shakes[j].peer # peerId => shakes'[j] = shakes[j]
    /\ initializingPeers' \ {peerId} = initializingPeers \ {peerId}
    /\ peersWaitingForSong' \ {peerId} = peersWaitingForSong \ {peerId}
    /\ \A m \in lastSent' : m.to = peerId

\* C28: every started handshake sequence returns, whether its peer stays
\* or leaves and whether or not the probe is answered; a peer is in
\* initializingPeers only while a sequence for it is running; and the
\* connection or disconnection of a peer, and every step of a peer's
\* sequence, leave the sequences of the other peers, their markers and the
\* messages sent to them untouched.
C28_HandshakeIsolation ==
    /\ \A k \in 1..MaxShakes : [](k <= Len(shakes) => <>(ShakeEnded(k)))
    /\ [](\A p \in initializingPeers :
              \E k \in 1..Len(shakes) : shakes[k].peer = p /\ ~ShakeEnded(k))
    /\ [][ /\ \A p \in Peers : (ConnOpen(p) \/ ConnClose(p)) => OnlyAbout(p)
           /\ \A k \in 1..Len(shakes) : ShakeStep(k) => OnlyAbout(shakes[k].peer)
         ]_vars

\* C28 witness: the sequence of f1 was cut short because f1 left, the
\* sequence of f2 ran to its end with every message sent, and no marker is left.
C28_Witness ==
    /\ Len(shakes) = 2
    /\ shakes[1].peer = "f1" /\ shakes[1].pc = "aborted" /\ shakes[1].dropped
    /\ shakes[2].peer = "f2" /\ shakes[2].pc = "done" /\ ~shakes[2].failed
    /\ Len(shakes[2].sent) >= 10
    /\ initializingPeers = {}

\* ------------------------------------------------------------------ the clock-sample window

AnyFollowerOnPong == \E down \in Delays : FollowerOnPong(down)

\* C29: recentRTTs never holds more than MAX_RTT_SAMPLES samples; an
\* accepted probe reply appends its round-trip time, and when the window was
\* already full the oldest sample is dropped and the others keep their order;
\* a rejected reply and every other step leave the window as it was.
C29_WindowBoundedFifo ==
    /\ [](Len(recentRTTs) <= MAX_RTT_SAMPLES)
    /\ [][ IF AnyFollowerOnPong /\ lastPong'.verdict = "accepted"
           THEN recentRTTs' = IF Len(recentRTTs) < MAX_RTT_SAMPLES
                              THEN Append(recentRTTs, lastPong'.rtt)
                              ELSE Tail(recentRTTs) \o <<lastPong'.rtt>>
           ELSE recentRTTs' = recentRTTs
         ]_vars

\* C29 witness: a full window of three short round trips followed by four
\* long ones. A long round trip is an outlier against a window of short ones,
\* so the long samples were accepted while older long samples, since dropped
\* from the front, still held the median.
C29_Witness ==
    /\ recentRTTs = <<2, 2, 2, 12, 12, 12, 12>>
    /\ lastPong.verdict = "accepted"
    /\ lastPong.rtt = 12

\* ------------------------------------------------------------------ the sync schedule

\* C30: the first probe on a connection to the host is never left to a
\* periodic tick (each time the connection opens a probe goes out on its
\* own), at most one interval timer runs however often startPeriodicSync is
\* called, and a host sends no probe.
C30_SyncSchedule ==
    /\ [][PeriodicTick => firstProbe' # "tick"]_vars
    /\ [](intervals <= 1)
    /\ [](p2pClient.isHost => firstProbe = "none" /\ channel = NoMsg)

\* The part of C30 about the timer: one interval timer at most, and it
\* runs exactly while syncInterval holds its handle.
C30_SingleInterval == intervals = (IF syncInterval THEN 1 ELSE 0)

\* The part of C30 about the host: it sends no probe and sets no timer.
C30_HostSilent == p2pClient.isHost => firstProbe = "none" /\ channel = NoMsg /\ intervals = 0

\* A connection that opened after the constructor's timer had fired got its
\* first probe from a tick.
C30_TickFirstReached == firstProbe = "tick" /\ kickoff = "fired"

\* A connection that opened before the constructor's timer fired got its
\* probe from that timer.
C30_KickoffFirstReached == firstProbe = "kickoff" /\ hostConn.state = "open"

\* ------------------------------------------------------------------ the session snapshot

\* The slot of the snapshot a tracked message is kept in.
SlotOf(func) ==
    CASE func = "tabRest" -> "tabRest"
      [] func = "navRest" -> "navRest"
      [] func = "songSelected" -> "selected"
      [] func = "coachSelected" -> "coachSelected"
      [] func = "neverDanceAlone" -> "neverDanceAlone"
      [] func = "songLaunched" -> "launched"
      [] func = "songStart" -> "start"

Slots == {"tabRest", "navRest", "selected", "coachSelected", "neverDanceAlone",
          "launched", "start"}
SongSlots == {"selected", "coachSelected", "neverDanceAlone", "launched", "start"}

\* What the snapshot must look like after `msg`, given what it was before.
TrackEffect(msg) ==
    LET old == gameState
        new == gameState'
    IN  IF msg.func \in SlotFuncs
        THEN /\ new.state[SlotOf(msg.func)] = msg
             /\ \A slot \in Slots \ {SlotOf(msg.func)} : new.state[slot] = old.state[slot]
             /\ new.players = old.players
             /\ new.isMidSong = (msg.func = "songStart" \/ old.isMidSong)
        ELSE IF msg.func \in {"songEnd", "returnToLobby"}
        THEN /\ ~new.isMidSong
             /\ \A slot \in SongSlots : new.state[slot] = Null
             /\ \A slot \in Slots \ SongSlots : new.state[slot] = old.state[slot]
             /\ new.players = old.players
        ELSE /\ new.state = old.state
             /\ new.isMidSong = old.isMidSong

\* C31: a tracked message overwrites its own slot and no other; songStart
\* sets isMidSong; songEnd and returnToLobby clear isMidSong and the five
\* song slots and leave tabRest, navRest and the players as they were; no
\* other message touches the slots or the flag. The flag starts false, so it
\* is true exactly when the last of songStart, songEnd and returnToLobby was
\* songStart, and then the start slot is filled.
C31_SnapshotTracking ==
    /\ [][\A msg \in TrackMessages : HostObserves(msg) => TrackEffect(msg)]_vars
    /\ [](gameState.isMidSong => gameState.state.start # Null)

\* C31 witness: songEnd was the last message (it is the one just relayed):
\* the song slots are empty, the menu position, overwritten once, and the
\* player are kept.
C31_Witness ==
    /\ lastSent = {[to |-> "f1", msg |-> [func |-> "songEnd", id |-> 1], from |-> "relay"]}
    /\ gameState.state.tabRest = [func |-> "tabRest", id |-> 2]
    /\ gameState.state.navRest # Null
    /\ gameState.players # <<>>
    /\ \A slot \in SongSlots : gameState.state[slot] = Null
    /\ ~gameState.isMidSong

\* A song is under way: mid-song with the second songStart in its slot.
C31_MidSongReached ==
    /\ gameState.isMidSong
    /\ gameState.state.start = [func |-> "songStart", id |-> 2]
    /\ gameState.state.selected # Null

\* ------------------------------------------------------------------ malformed peer input

\* Input the participant has no use for: a control record none of its
\* handlers tests for, or a value that passes for nothing.
Malformed(data) ==
    \/ ~PassesFilter(data)
    \/ IsP2PControlMessage(data) /\ data.type \notin {"__ping", "__rttEcho", "__forward"}

\* C32: malformed data of a peer never reaches the onmessage handler, is
\* relayed to no peer and not sent upstream, and leaves the connections open.
C32_MalformedDropped ==
    /\ [](\A data \in delivered : ~Malformed(data))
    /\ [][\A data \in PeerData, peerId \in Peers :
              Malformed(data) /\ OnPeerData(data, peerId) =>
                  /\ lastSent' = {}
                  /\ upstream' = upstream
                  /\ connections' = connections
         ]_vars

\* The part of C32 that holds: data that is neither a control record nor a
\* func-tagged message is never delivered, and no input closes a connection.
C32_UntaggedDropped ==
    /\ [](Untagged \notin delivered)
    /\ [][\A data \in PeerData, peerId \in Peers :
              OnPeerData(data, peerId) => connections' = connections]_vars

\* An unknown control record was delivered and relayed to the other peer.
C32_UnknownRelayed ==
    /\ UnknownControl \in delivered
    /\ \E m \in lastSent : m.from = "relay" /\ m.msg = AsMessage(UnknownControl)

\* ------------------------------------------------------------------ the star

HostId == GetPeerId(p2pClient.roomId)

\* C33: whatever a follower forwards, and every clock probe it sends, is
\* addressed to the host's derived peer id, also while other peers hold a
\* connection to the follower.
C33_StarTopology ==
    ~p2pClient.isHost =>
        /\ \A m \in lastSent : m.from = "forward" => m.to = HostId
        /\ channel.type = "__ping" => channel.to = HostId

\* The part of C33 about the clock probe: it is addressed to the host.
C33_ProbeToHost == (~p2pClient.isHost /\ channel.type = "__ping") => channel.to = HostId

\* A follower connected to the host and to another peer forwarded a message
\* to that peer.
C33_ForwardedToPeer ==
    /\ ~p2pClient.isHost
    /\ HostId \in connections
    /\ \E m \in lastSent : m.from = "forward" /\ m.to \in Peers

\* ------------------------------------------------------------------ the follower's outbound messages

\* C34: a follower writes nothing to the real WebSocket; of the strings its
\* game sends, connect, registerRoom, ping and pong are not forwarded (the
\* ping is answered with a pong handed to the game), and every other one,
\* while the connection to the host is open, goes to the host in a
\* __forward envelope.
C34_FollowerOutbound ==
    /\ [](~p2pClient.isHost => upstream = {})
    /\ [][\A msg \in OutMessages : FollowerSend(msg) =>
              /\ msg.func \in SkipFuncs => lastSent' = {}
              /\ msg.func = "ping" => AutoPong \in delivered'
              /\ (msg.func \notin SkipFuncs /\ HostId \in connections) =>
                     lastSent' = {[to |-> HostId, msg |-> ForwardEnvelope(msg),
                                   from |-> "forward"]}
         ]_vars

\* The part of C34 that does not depend on where forwardToHost sends:
\* nothing goes upstream, the four funcs are not forwarded, the ping is
\* answered, and every other string is put in one __forward envelope
\* whenever a connection exists.
C34_ForwardedOrSkipped ==
    /\ [](~p2pClient.isHost => upstream = {})
    /\ [][\A msg \in OutMessages : FollowerSend(msg) =>
              /\ msg.func \in SkipFuncs => lastSent' = {}
              /\ msg.func = "ping" => AutoPong \in delivered'
              /\ (msg.func \notin SkipFuncs /\ connections # {}) =>
                     \E p \in connections :
                         lastSent' = {[to |-> p, msg |-> ForwardEnvelope(msg),
                                       from |-> "forward"]}
         ]_vars

\* A follower connected to the host only forwarded a gameplay message to it.
C34_ForwardedToHost ==
    /\ ~p2pClient.isHost
    /\ connections = {HostId}
    /\ lastSent = {[to |-> HostId, msg |-> ForwardEnvelope([func |-> "playerMoves", id |-> 1]),
                    from |-> "forward"]}

\* ------------------------------------------------------------------ results deferral on a follower

QueuedMessages == {deferredMessages[i] : i \in 1..Len(deferredMessages)}

\* C35: an end message that arrives while the video plays is queued and not
\* handed to the game; when the poll finds the video stopped, and at the
\* latest when the 30 s timer fires, every queued message is handed to the
\* game and the queue is empty.
C35_DeferralDelivers ==
    [][ /\ \A msg \in InMessages :
              (FollowerOnMessage(msg) /\ Defers(msg, videoPlaying)) =>
                  /\ gameReceived' = gameReceived
                  /\ deferredMessages' = Append(deferredMessages, msg)
        /\ (DeferralTimeout \/ WatcherPoll) =>
              /\ deferredMessages' = <<>>
              /\ QueuedMessages \subseteq gameReceived'
      ]_vars

\* The part of C35 that holds: deferred messages wait in the queue, and the
\* poll that finds the video stopped delivers them all.
C35_PollDelivers ==
    [][ /\ \A msg \in InMessages :
              (FollowerOnMessage(msg) /\ Defers(msg, videoPlaying)) =>
                  /\ gameReceived' = gameReceived
                  /\ deferredMessages' = Append(deferredMessages, msg)
        /\ WatcherPoll =>
              /\ deferredMessages' = <<>>
              /\ QueuedMessages \subseteq gameReceived'
      ]_vars

\* The safety timer fired with the video still playing: the results are
\* queued again behind a new timer and the game has not received them.
C35_StuckAfterTimeout ==
    /\ lastFlush = "timeout"
    /\ videoPlaying
    /\ deferralTimer
    /\ [func |-> "results", id |-> 1] \in QueuedMessages
    /\ [func |-> "results", id |-> 1] \notin gameReceived

\* C36: the clientSyncCompleted of a handshake sequence whose probe its peer
\* received carries latency = round(RTT/2) of an RTT measured by the echo of
\* that probe, not of the fallback.
C36_LatencyMeasured ==
    \A k \in 1..Len(shakes) :
        (shakes[k].latency # 0 /\ shakes[k].probe = "toGame") =>
            /\ shakes[k].by = "echo" /\ shakes[k].of = k
            /\ shakes[k].latency = Latency(shakes[k].rtt)

\* With followers that run this extension every measurement ends by its
\* timeout, and every clientSyncCompleted carries round(100/2).
C36_AlwaysFallback ==
    \A k \in 1..Len(shakes) :
        /\ shakes[k].by \in {"none", "timeout"}
        /\ shakes[k].latency \in {0, Latency(RTT_FALLBACK)}

\* A sequence sent clientSyncCompleted to a peer that had received its probe
\* and never left.
C36_FallbackSentReached ==
    \E k \in 1..Len(shakes) :
        /\ shakes[k].latency = Latency(RTT_FALLBACK)
        /\ shakes[k].probe = "toGame" /\ ~shakes[k].dropped

\* The host's side with a peer that echoes: a promise resolves once, by the
\* echo or by the timeout, and the latency sent is round(RTT/2) of its value.
C36_HostSide ==
    \A k \in 1..Len(shakes) :
        /\ shakes[k].handler => shakes[k].pc = "rtt"
        /\ shakes[k].by = "none" <=> shakes[k].pc \in {"settle", "rtt"} \/
                                      (shakes[k].failed /\ shakes[k].rtt = 0)
        /\ shakes[k].latency # 0 => shakes[k].latency = Latency(shakes[k].rtt)

\* An echo resolved a measurement and its clientSyncCompleted was sent.
C36_EchoReached ==
    \E k \in 1..Len(shakes) :
        shakes[k].by = "echo" /\ shakes[k].rtt = 41 /\ shakes[k].latency = 21

\* A reconnect during the handshake (C38): the echo of an earlier sequence's
\* probe resolved the measurement of a later sequence of the same peer.
C36_ForeignEchoReached ==
    \E k \in 1..Len(shakes) : shakes[k].by = "echo" /\ shakes[k].of # k

\* The follower's clock reading at the instant the host's clock reads h.
FollowerNow(h) == h + skew

\* A probe with equal one-way delays set the offset.
SymmetricProbeAccepted ==
    lastPong.verdict = "accepted" /\ lastPong.up = lastPong.down

\* C37 as stated: with the offset of a symmetric-delay probe, the host's now
\* is the follower's local now plus clockOffset.
C37_OffsetToHost ==
    SymmetricProbeAccepted =>
        \A h \in HostTimes : 2 * h = 2 * FollowerNow(h) + clockOffset

\* C37 amended: with the offset of a symmetric-delay probe, the follower's
\* local now is the host's now plus clockOffset, which is what
\* handleSongStartMessage computes from the host's start time.
C37_OffsetToLocal ==
    SymmetricProbeAccepted =>
        \A h \in HostTimes :
            /\ 2 * FollowerNow(h) = 2 * h + clockOffset
            /\ AdjustedTime(h, clockOffset) = 2 * FollowerNow(h)

\* C37 witness: a follower whose clock is 2 ms ahead of the host's took the
\* offset of a symmetric probe (4 half-ms).
C37_Witness ==
    /\ SymmetricProbeAccepted
    /\ skew = 2
    /\ clockOffset = 4

\* The sequence k has not returned yet.
InFlight(k) == shakes[k].pc \notin {"done", "aborted"}

\* C38: at most one handshake sequence is in flight for a peer id at any
\* time, and a peer is in initializingPeers while a sequence started for its
\* present connection still has messages to send.
C38_SingleSequence ==
    /\ \A j, k \in 1..Len(shakes) :
          (j # k /\ shakes[j].peer = shakes[k].peer) => ~(InFlight(j) /\ InFlight(k))
    /\ \A k \in 1..Len(shakes) :
          (HasMessageToSend(k) /\ ~shakes[k].dropped /\ IsPeerAlive(shakes[k].peer)) =>
              shakes[k].peer \in initializingPeers

\* C38, the earlier sequence: a sequence whose connection has closed sends
\* nothing any more, whether or not its peer has reconnected.
C38_EarlierSilent ==
    [][ \A k \in 1..Len(shakes) :
          shakes[k].dropped => shakes'[k].sent = shakes[k].sent ]_vars

\* The peer reconnected, and the sequence of its earlier connection ended and
\* took the peer out of initializingPeers while the sequence of the present
\* connection still has messages to send.
C38_MarkerLostReached ==
    \E j, k \in 1..Len(shakes) :
        /\ j < k /\ shakes[j].peer = shakes[k].peer
        /\ shakes[j].dropped /\ shakes[j].pc = "done"
        /\ ~shakes[k].dropped /\ HasMessageToSend(k)
        /\ shakes[k].peer \in connections
        /\ shakes[k].peer \notin initializingPeers

\* A sequence whose connection closed ran to its end on the connection the
\* peer opened afterwards: it sent every handshake message.
C38_EarlierCompletedReached ==
    \E k \in 1..Len(shakes) :
        /\ shakes[k].dropped /\ shakes[k].pc = "done" /\ ~shakes[k].failed
        /\ \E n \in 1..Len(shakes[k].sent) : shakes[k].sent[n] = ConnectedMsg

\* C39: a remote peer id is a key of P2PClient.connections if and only if
\* the connection opened last for that peer id is still open.
C39_TableExact ==
    \A peerId \in Peers :
        peerId \in connections <=> lastConn[peerId] \in liveConns[peerId]

\* The newer connection of f1 is open and its key has gone with the older
\* connection's close.
C39_NewerRemovedReached ==
    /\ liveConns["f1"] = {2}
    /\ lastConn["f1"] = 2
    /\ "f1" \notin connections

\* C39, the follower's table: the host's id is a key if and only if the
\* connection to the host is open.
C39_HostLinkExact ==
    p2pClient # NoClient =>
        (GetPeerId(p2pClient.roomId) \in connections <=> hostConn.state = "open")

\* C39 with one connection per remote peer id at a time: the table is exact.
C39_ExactWithoutOverlap ==
    /\ C39_TableExact
    /\ \A peerId \in Peers : Cardinality(liveConns[peerId]) <= 1

====
